---- MODULE Spec2Model ----
(***************************************************************************)
(* SeaYou: the hazard catalog / route analyzer (nauticalChartService.ts)   *)
(* and the offline navigation controller (OfflineNavigationSystem).        *)
(*                                                                         *)
(* Units.  Chart coordinates are integers in grid units of 50/111320       *)
(* degree, so that toMeters (x = lon*111320*cos(lat), y = lat*111320)      *)
(* gives 50 m per unit; all latitudes of the model are within 0.02 degree  *)
(* of the equator, where cos(lat) is 1 to 7 digits.  Radii and safety      *)
(* margins are metres, depths are decimetres, time is milliseconds.        *)
(* A JavaScript number-or-nothing value is a record [k, v] with            *)
(* k in {"num", "NaN", "null", "undef"}.                                   *)
(***************************************************************************)
EXTENDS Integers, Sequences, FiniteSets, TLC

VARIABLES
    storage,      \* localStorage: cache key -> entry written by cacheNauticalData
    now,          \* Date.now(), ms
    ticks,        \* how often the clock has advanced
    fetches,      \* how many fetchNauticalHazards calls were made
    returned,     \* cache key -> what the last successful fetch for it returned
    analysis      \* the last analyzeRouteHazards call: inputs, fetch and result

chartVars == <<storage, now, ticks, fetches, returned, analysis>>

VARIABLES
    watchId,              \* this.watchId, 0 for null
    route,                \* this.route: a key of NavRoutes, 0 for null
    currentWaypointIndex, \* this.currentWaypointIndex
    isNavigating,         \* this.isNavigating
    navigationHistory,    \* this.navigationHistory
    currentHeading,       \* this.currentHeading
    currentSpeed,         \* this.currentSpeed, a fraction of 1e-7 knots
    smoothedSpeeds,       \* this.smoothedSpeeds, 1e-7 knots
    emitted,              \* the emit calls of the last operation, in order
    pendingStarts,        \* startNavigation calls suspended at their await
    activeWatches,        \* navigator.geolocation: the watch ids not cleared
    watchCount,           \* navigator.geolocation: watch ids handed out
    orientationListeners, \* window: the registered deviceorientation listeners
    bindCount,            \* functions made by handleOrientation.bind(this)
    activeRoute,          \* localStorage 'activeRoute', 0 when never written
    cachedPositions,      \* localStorage 'navigationPositions': its length
    env,                  \* what the browser has: geolocation, DeviceOrientationEvent
    starts,               \* startNavigation calls made
    fixes,                \* position callbacks delivered
    lastCall,             \* the operation or callback that ran last
    listeners,            \* this.listeners: event name -> callback, "" for none
    regLog                \* the on and off calls made, in order

navVars == <<watchId, route, currentWaypointIndex, isNavigating, navigationHistory,
             currentHeading, currentSpeed, smoothedSpeeds, emitted, pendingStarts,
             activeWatches, watchCount, orientationListeners, bindCount,
             activeRoute, cachedPositions, env, starts, fixes, lastCall,
             listeners, regLog>>

registryVars == <<listeners, regLog>>

VARIABLES
    pureCall              \* the last direct call of a function: name, input, output

pureVars == <<pureCall>>

vars == <<storage, now, ticks, fetches, returned, analysis, pureCall,
          watchId, route, currentWaypointIndex, isNavigating, navigationHistory,
          currentHeading, currentSpeed, smoothedSpeeds, emitted, pendingStarts,
          activeWatches, watchCount, orientationListeners, bindCount,
          activeRoute, cachedPositions, env, starts, fixes, lastCall,
          listeners, regLog>>

\* ------------------------------------------------------------------ bounds
MaxElems == 2     \* elements in one feature-service response
MaxFetches == 2   \* fetchNauticalHazards calls in one behaviour
MaxTicks == 2     \* clock advances in one behaviour
MaxStarts == 2    \* startNavigation calls in one behaviour
MaxFixes == 2     \* position callbacks in one behaviour
MaxRegs == 3      \* on and off calls in one behaviour
MaxPlanned == 4   \* waypoints of a planned route
MaxCritical == 3  \* hazards attached by one analysis

\* ------------------------------------------------------- JavaScript values
Num(n) == [k |-> "num", v |-> n]
NaN == [k |-> "NaN", v |-> 0]
Null == [k |-> "null", v |-> 0]
Undef == [k |-> "undef", v |-> 0]

\* ToNumber as the relational operators apply it: null is 0, undefined is NaN.
ToNumber(x) == IF x.k = "null" THEN Num(0) ELSE IF x.k = "undef" THEN NaN ELSE x

\* a < b and a >= b on JavaScript values: false as soon as one side is NaN.
JsLt(a, b) == ToNumber(a).k = "num" /\ ToNumber(b).k = "num" /\ ToNumber(a).v < ToNumber(b).v
JsGe(a, b) == ToNumber(a).k = "num" /\ ToNumber(b).k = "num" /\ ToNumber(a).v >= ToNumber(b).v

\* JSON.parse(JSON.stringify(x)) of a number-valued property: NaN is written
\* as null, an undefined property is left out (and read back as undefined).
JsonNumber(x) == IF x.k = "NaN" THEN Null ELSE x

RoundDiv(a, b) == (2 * a + b) \div (2 * b)

\* ---------------------------------------------------------------- seamarks
\* classifySeamark: seamark:type -> type, severity, default radius (m).
ClassifySeamark(seamarkType, wreckCategory) ==
    CASE seamarkType = "rock" -> [type |-> "rock", severity |-> "danger", radius |-> 50]
      [] seamarkType = "reef" -> [type |-> "reef", severity |-> "danger", radius |-> 100]
      [] seamarkType = "wreck" ->
            [type |-> "wreck",
             severity |-> IF wreckCategory = "dangerous" THEN "danger" ELSE "warning",
             radius |-> 100]
      [] seamarkType = "restricted_area" ->
            [type |-> "restricted_area", severity |-> "critical", radius |-> 500]
      [] seamarkType = "military_area" ->
            [type |-> "military_zone", severity |-> "critical", radius |-> 1000]
      [] seamarkType = "anchorage" ->
            [type |-> "anchorage_prohibited", severity |-> "warning", radius |-> 200]
      [] seamarkType = "separation_zone" ->
            [type |-> "traffic_separation", severity |-> "warning", radius |-> 200]
      [] seamarkType = "cable_submarine" ->
            [type |-> "cable_area", severity |-> "warning", radius |-> 100]
      [] seamarkType = "pipeline_submarine" ->
            [type |-> "pipeline", severity |-> "warning", radius |-> 100]
      [] OTHER -> [type |-> "restricted_area", severity |-> "warning", radius |-> 100]

\* parseFloat on the tag texts of the model, in decimetres.
ParseFloat(text) ==
    CASE text = "0" -> Num(0)
      [] text = "1.5" -> Num(15)
      [] text = "3.0" -> Num(30)
      [] text = "5.0" -> Num(50)
      [] OTHER -> NaN

\* parseDepth: "" is the absent (or empty, falsy) tag.
ParseDepth(tags) ==
    IF tags.depth # "" THEN ParseFloat(tags.depth)
    ELSE IF tags.waterLevel = "awash" THEN Num(0)
    ELSE IF tags.waterLevel = "covers" THEN Num(-10)
    ELSE Undef

\* The centre of a way: the mean of its geometry's points.
WayCenter(geometry) ==
    LET SumLat[i \in 0..Len(geometry)] == IF i = 0 THEN 0 ELSE SumLat[i - 1] + geometry[i].lat
        SumLon[i \in 0..Len(geometry)] == IF i = 0 THEN 0 ELSE SumLon[i - 1] + geometry[i].lon
    IN  [lat |-> SumLat[Len(geometry)] \div Len(geometry),
         lon |-> SumLon[Len(geometry)] \div Len(geometry)]

\* One element of parseSeamarkData's forEach: the hazards it pushes (0 or 1).
ParseElement(element) ==
    LET info == ClassifySeamark(element.tags.seamarkType, element.tags.wreckCategory)
    IN  IF element.tags.seamarkType = "" THEN <<>>
        ELSE IF element.type = "node" /\ element.lat # 0 /\ element.lon # 0
        THEN <<[id |-> element.id, type |-> info.type,
                lat |-> element.lat, lon |-> element.lon,
                radius |-> Num(info.radius), depth |-> ParseDepth(element.tags),
                severity |-> info.severity]>>
        ELSE IF element.type = "way" /\ Len(element.geometry) > 0
        THEN <<[id |-> element.id, type |-> info.type,
                lat |-> WayCenter(element.geometry).lat,
                lon |-> WayCenter(element.geometry).lon,
                radius |-> Undef, depth |-> ParseDepth(element.tags),
                severity |-> info.severity]>>
        ELSE <<>>

RECURSIVE ParseElements(_)
ParseElements(elements) ==
    IF elements = <<>> THEN <<>>
    ELSE ParseElement(Head(elements)) \o ParseElements(Tail(elements))

\* parseSeamarkData: data is [hasElements, elements].
ParseSeamarkData(data) == IF ~data.hasElements THEN <<>> ELSE ParseElements(data.elements)

\* ------------------------------------------------------------------- cache
\* 7 * 24 * 60 * 60 * 1000
CacheTtlMs == 7 * 24 * 60 * 60 * 1000

\* x.toFixed(2) of a bounding-box coordinate, as hundredths of a degree; box
\* coordinates are in 1/111320 degree.
ToFixed2(coord) == RoundDiv(100 * coord, 111320)

\* `nautical-${bbox.south.toFixed(2)}-${bbox.west.toFixed(2)}`; the box of an
\* empty route has south = west = Infinity.
CacheKey(bbox) ==
    IF bbox.finite
    THEN [finite |-> TRUE, south |-> ToFixed2(bbox.south), west |-> ToFixed2(bbox.west)]
    ELSE [finite |-> FALSE, south |-> 0, west |-> 0]

NoEntry == [present |-> FALSE]

JsonHazard(h) == [h EXCEPT !.depth = JsonNumber(@), !.radius = JsonNumber(@)]

\* cacheNauticalData: localStorage.setItem(cacheKey, JSON.stringify(...)).
CacheNauticalData(store, bbox, hazards, time) ==
    [store EXCEPT ![CacheKey(bbox)] =
        [present |-> TRUE, timestamp |-> time, bbox |-> bbox,
         hazards |-> [i \in 1..Len(hazards) |-> JsonHazard(hazards[i])]]]

\* getCachedNauticalData: the hazards, or "null".
GetCachedNauticalData(store, bbox, time) ==
    LET cached == store[CacheKey(bbox)]
    IN  IF ~cached.present THEN [isNull |-> TRUE, hazards |-> <<>>]
        ELSE IF time - cached.timestamp < CacheTtlMs
        THEN [isNull |-> FALSE, hazards |-> cached.hazards]
        ELSE [isNull |-> TRUE, hazards |-> <<>>]

\* fetchNauticalHazards under one outcome of the request: what it returns and
\* the store it leaves.  response = [outcome, data], outcome "ok", "network"
\* (fetch rejects), "status" (response.ok false) or "json" (response.json
\* rejects).
FetchNauticalHazards(store, bbox, response, time) ==
    IF response.outcome = "ok"
    THEN [hazards |-> ParseSeamarkData(response.data),
          store |-> CacheNauticalData(store, bbox, ParseSeamarkData(response.data), time)]
    ELSE [hazards |-> GetCachedNauticalData(store, bbox, time).hazards,
          store |-> store]

\* --------------------------------------------------------------- analysis
\* toMeters, in 50 m units (see the note on units above).
ToMeters(p) == [x |-> p.lon, y |-> p.lat]

\* distanceFromLineSegment, as the square of the distance in 50 m units: the
\* fraction num / den (den > 0).  The projection factor t is clamped to [0, 1].
DistanceFromLineSegment(point, lineStart, lineEnd) ==
    LET p == ToMeters(point)
        a == ToMeters(lineStart)
        b == ToMeters(lineEnd)
        dx == b.x - a.x
        dy == b.y - a.y
        lengthSquared == dx * dx + dy * dy
        dot == (p.x - a.x) * dx + (p.y - a.y) * dy
        apSq == (p.x - a.x) * (p.x - a.x) + (p.y - a.y) * (p.y - a.y)
        bpSq == (p.x - b.x) * (p.x - b.x) + (p.y - b.y) * (p.y - b.y)
    IN  IF lengthSquared = 0 THEN [num |-> apSq, den |-> 1]
        ELSE IF dot <= 0 THEN [num |-> apSq, den |-> 1]
        ELSE IF dot >= lengthSquared THEN [num |-> bpSq, den |-> 1]
        ELSE [num |-> apSq * lengthSquared - dot * dot, den |-> lengthSquared]

\* A comparison that attaches a hazard at exactly the buffer distance too.
DistanceLessOrEqual(distance, metres) ==
    /\ metres > 0
    /\ distance.num <= (metres \div 50) * (metres \div 50) * distance.den

\* distance < metres, for a distance given as above (metres a multiple of 50,
\* as every radius of classifySeamark and every margin of the model is).
DistanceLess(distance, metres) ==
    /\ metres > 0
    /\ distance.num < (metres \div 50) * (metres \div 50) * distance.den

\* hazard.radius || 100
HazardBuffer(hazard) ==
    IF hazard.radius.k = "num" /\ hazard.radius.v # 0 THEN hazard.radius.v ELSE 100

\* The warning pushed for an attached hazard (none for severity info).
HazardWarning(hazard, i) ==
    IF hazard.severity = "critical"
    THEN <<[level |-> "CRITICAL", id |-> hazard.id, segment |-> i]>>
    ELSE IF hazard.severity = "danger"
    THEN <<[level |-> "DANGER", id |-> hazard.id, segment |-> i]>>
    ELSE IF hazard.severity = "warning"
    THEN <<[level |-> "Warning", id |-> hazard.id, segment |-> i]>>
    ELSE <<>>

\* The body of the inner loop for leg i (0-based) and one hazard.
AnalyzeStep(acc, waypoints, hazard, i, safetyMargin) ==
    LET distance == DistanceFromLineSegment([lat |-> hazard.lat, lon |-> hazard.lon],
                                            waypoints[i + 1], waypoints[i + 2])
        attached == DistanceLess(distance, safetyMargin + HazardBuffer(hazard))
        deeper == hazard.depth.k # "undef"
                  /\ (acc.minDepth.k = "null" \/ JsLt(hazard.depth, acc.minDepth))
    IN  [routeHazards |->
            IF attached
            THEN Append(acc.routeHazards,
                        [hazard |-> hazard, distanceFromRoute |-> distance,
                         waypointSegment |-> i])
            ELSE acc.routeHazards,
         warnings |-> IF attached THEN acc.warnings \o HazardWarning(hazard, i)
                      ELSE acc.warnings,
         minDepth |-> IF deeper THEN hazard.depth ELSE acc.minDepth]

\* The two nested loops: legs i = 0 .. length - 2, and for each all hazards.
RECURSIVE AnalyzeLoop(_, _, _, _, _, _)
AnalyzeLoop(acc, waypoints, hazards, i, j, safetyMargin) ==
    IF i > Len(waypoints) - 2 THEN acc
    ELSE IF j > Len(hazards) THEN AnalyzeLoop(acc, waypoints, hazards, i + 1, 1, safetyMargin)
    ELSE AnalyzeLoop(AnalyzeStep(acc, waypoints, hazards[j], i, safetyMargin),
                     waypoints, hazards, i, j + 1, safetyMargin)

CriticalCount(routeHazards) ==
    Cardinality({n \in 1..Len(routeHazards) : routeHazards[n].hazard.severity = "critical"})

\* Recommendations that end with the hazard summary when hazards were found.
RecommendationsSummaryOnly(routeHazards) ==
    IF Len(routeHazards) = 0
    THEN <<[text |-> "No major hazards detected along route", n |-> 0],
           [text |-> "Always verify route with official nautical charts before navigation",
            n |-> 0],
           [text |-> "Monitor VHF radio for local notices to mariners", n |-> 0]>>
    ELSE <<[text |-> "hazard(s) detected. Review and adjust route as needed.",
            n |-> Len(routeHazards)]>>

\* The recommendations, in order.
Recommendations(routeHazards) ==
    (IF Len(routeHazards) = 0
     THEN <<[text |-> "No major hazards detected along route", n |-> 0]>>
     ELSE <<[text |-> "hazard(s) detected. Review and adjust route as needed.",
             n |-> Len(routeHazards)]>>
          \o (IF CriticalCount(routeHazards) > 0
              THEN <<[text |-> "CRITICAL hazard(s) detected. Route is UNSAFE - must reroute!",
                      n |-> CriticalCount(routeHazards)]>>
              ELSE <<>>))
    \o <<[text |-> "Always verify route with official nautical charts before navigation",
          n |-> 0],
         [text |-> "Monitor VHF radio for local notices to mariners", n |-> 0]>>

\* An isSafe that looks at the attached hazards only.
IsSafeNoDepth(routeHazards, minDepth, vesselDraft) ==
    \A n \in 1..Len(routeHazards) : routeHazards[n].hazard.severity # "critical"

\* const isSafe = ...
IsSafe(routeHazards, minDepth, vesselDraft) ==
    /\ CriticalCount(routeHazards) = 0
    /\ (minDepth.k = "null" \/ JsGe(minDepth, Num(vesselDraft + 10)))

\* The padded bounding box of a route, in 1/111320 degree (0.1 degree is
\* 11132); Math.max() and Math.min() of no value are -Infinity and Infinity.
Max(S) == CHOOSE x \in S : \A y \in S : y <= x
Min(S) == CHOOSE x \in S : \A y \in S : x <= y

RouteBBox(waypoints) ==
    LET lats == {waypoints[i].lat : i \in 1..Len(waypoints)}
        lons == {waypoints[i].lon : i \in 1..Len(waypoints)}
    IN  IF waypoints = <<>>
        THEN [finite |-> FALSE, north |-> 0, south |-> 0, east |-> 0, west |-> 0]
        ELSE [finite |-> TRUE,
              north |-> 50 * Max(lats) + 11132, south |-> 50 * Min(lats) - 11132,
              east |-> 50 * Max(lons) + 11132, west |-> 50 * Min(lons) - 11132]

\* analyzeRouteHazards after the fetch: the RouteAnalysis for these hazards.
AnalyzeHazards(waypoints, hazards, vesselDraft, safetyMargin) ==
    LET acc == AnalyzeLoop([routeHazards |-> <<>>, warnings |-> <<>>, minDepth |-> Null],
                           waypoints, hazards, 0, 1, safetyMargin)
        shallow == acc.minDepth.k # "null" /\ JsLt(acc.minDepth, Num(vesselDraft + 10))
    IN  [isSafe |-> IsSafe(acc.routeHazards, acc.minDepth, vesselDraft),
         hazards |-> acc.routeHazards,
         minDepth |-> acc.minDepth,
         warnings |-> IF shallow
                      THEN Append(acc.warnings,
                                  [level |-> "SHALLOW WATER", id |-> 0, segment |-> 0])
                      ELSE acc.warnings,
         recommendations |-> Recommendations(acc.routeHazards)]

\* A requiresRerouting without the absolute depth floor of line 588.
RequiresReroutingNoFloor(a) ==
    \/ ~a.isSafe
    \/ \E n \in 1..Len(a.hazards) : a.hazards[n].hazard.severity = "critical"

\* requiresRerouting; 1.0 m is 10 dm.
RequiresRerouting(a) ==
    \/ ~a.isSafe
    \/ \E n \in 1..Len(a.hazards) : a.hazards[n].hazard.severity = "critical"
    \/ (a.minDepth.k # "null" /\ JsLt(a.minDepth, Num(10)))

\* A suggestHazardAvoidance that gives up on every leg along a meridian.
SuggestHazardAvoidanceNoMeridian(hazard, start, end, safetyMargin) ==
    IF end.lon - start.lon = 0 THEN Null
    ELSE [k |-> "waypoint", v |-> 0, name |-> hazard.type]

\* suggestHazardAvoidance: null, or the waypoint
\*   lat = midLat2 / 2 + (perpY / sqrt(length2)) * 1.5 * hazardBuffer / 111320
\*   lon = midLon2 / 2 + (perpX / sqrt(length2)) * 1.5 * hazardBuffer / 111320
\* named after the hazard's type, given by the integers of that expression
\* (grid units, metres).
SuggestHazardAvoidance(hazard, start, end, safetyMargin) ==
    LET hazardBuffer == (IF hazard.radius = 0 THEN 100 ELSE hazard.radius) + safetyMargin
        dx == end.lon - start.lon
        dy == end.lat - start.lat
        length2 == dx * dx + dy * dy
    IN  IF length2 = 0 THEN Null
        ELSE [k |-> "waypoint", v |-> 0,
              midLat2 |-> start.lat + end.lat, midLon2 |-> start.lon + end.lon,
              perpX |-> -dy, perpY |-> dx, length2 |-> length2,
              hazardBuffer |-> hazardBuffer, name |-> hazard.type]

\* ----------------------------------------------------- inputs of the model
NoTags == [seamarkType |-> "", wreckCategory |-> "", depth |-> "", waterLevel |-> ""]

Node(id, lat, lon, tags) ==
    [type |-> "node", id |-> id, lat |-> lat, lon |-> lon, geometry |-> <<>>, tags |-> tags]

Way(id, geometry, tags) ==
    [type |-> "way", id |-> id, lat |-> 0, lon |-> 0, geometry |-> geometry, tags |-> tags]

\* What the feature service may return.
ElementPool ==
    { Node(1, 0, 20, [NoTags EXCEPT !.seamarkType = "restricted_area"]),
      Node(2, 10, 40, [NoTags EXCEPT !.seamarkType = "military_area", !.depth = "5.0"]),
      Node(4, 2, 10, [NoTags EXCEPT !.seamarkType = "rock", !.depth = "shallow"]),
      Node(5, 12, 5, [NoTags EXCEPT !.seamarkType = "reef", !.depth = "1.5"]),
      Way(6, <<[lat |-> 2, lon |-> 28], [lat |-> 4, lon |-> 32]>>,
          [NoTags EXCEPT !.seamarkType = "wreck", !.wreckCategory = "dangerous",
                         !.waterLevel = "covers"]) }

\* A response lists an element once, in the order of the ids (the order in
\* which the service prints its result).
ElementLists ==
    {es \in UNION {[1..n -> ElementPool] : n \in 0..MaxElems} :
        \A i, j \in 1..Len(es) : i < j => es[i].id < es[j].id}

Responses ==
    {[outcome |-> "ok", data |-> [hasElements |-> TRUE, elements |-> es]] : es \in ElementLists}
    \cup {[outcome |-> "ok", data |-> [hasElements |-> FALSE, elements |-> <<>>]]}
    \cup {[outcome |-> o, data |-> [hasElements |-> FALSE, elements |-> <<>>]] :
            o \in {"network", "status", "json"}}

WP(lat, lon) == [lat |-> lat, lon |-> lon]

\* The routes analysed: a leg along the equator followed by a leg along a
\* meridian, and a single leg elsewhere (another box and another cache key).
ChartRoutes ==
    { <<WP(0, 0), WP(0, 40), WP(20, 40)>>,
      <<WP(12, 12), WP(12, 30)>> }

\* Vessel drafts (dm) and safety margins (m); 20 and 500 are the defaults.
Drafts == {20, 5}
Margins == {500}

\* A waypoint list with no waypoint.
EmptyRoutes == {<<>>}

CacheKeys == {CacheKey(RouteBBox(w)) : w \in ChartRoutes \cup EmptyRoutes}

NoAnalysis == [valid |-> FALSE]

\* ----------------------------------------------------------------- actions
ChartInit ==
    /\ storage = [key \in CacheKeys |-> NoEntry]
    /\ now = 0
    /\ ticks = 0
    /\ fetches = 0
    /\ returned = [key \in CacheKeys |-> NoEntry]
    /\ analysis = NoAnalysis

\* analyzeRouteHazards(waypoints, vesselDraft, safetyMargin), the request
\* ending as `response`.
AnalyzeRouteHazards(waypoints, vesselDraft, safetyMargin, response) ==
    LET bbox == RouteBBox(waypoints)
        fetched == FetchNauticalHazards(storage, bbox, response, now)
    IN  /\ fetches < MaxFetches
        /\ fetches' = fetches + 1
        /\ storage' = fetched.store
        /\ returned' = IF response.outcome = "ok"
                       THEN [returned EXCEPT ![CacheKey(bbox)] =
                                [present |-> TRUE, at |-> now, bbox |-> bbox,
                                 hazards |-> fetched.hazards]]
                       ELSE returned
        /\ analysis' = [valid |-> TRUE, waypoints |-> waypoints,
                        vesselDraft |-> vesselDraft, safetyMargin |-> safetyMargin,
                        bbox |-> bbox, response |-> response, at |-> now,
                        fetched |-> fetched.hazards,
                        result |-> AnalyzeHazards(waypoints, fetched.hazards,
                                                  vesselDraft, safetyMargin)]
        /\ UNCHANGED <<now, ticks, navVars, pureVars>>

\* Time passes.
Tick(dt) ==
    /\ ticks < MaxTicks
    /\ ticks' = ticks + 1
    /\ now' = now + dt
    /\ UNCHANGED <<storage, fetches, returned, analysis, navVars, pureVars>>

ChartNext ==
    \/ \E w \in ChartRoutes, d \in Drafts, m \in Margins, r \in Responses :
          AnalyzeRouteHazards(w, d, m, r)
    \/ \E dt \in {1, CacheTtlMs - 1} : Tick(dt)


\* ============================================================ navigation
\* Positions lie on one meridian: a latitude is an integer in units of the
\* arc of 0.05 NM, so that calculateDistance (Haversine, R = 3440.065 NM) is
\* the difference of latitudes and calculateBearing is 0 (north, or the same
\* point) or 180 (south).  Distances are in 0.05 NM, speeds in 1e-7 knots.

\* The routes navigated: the latitudes of their waypoints.
\* The routes handed to startNavigation, as the latitudes of their
\* waypoints: two routes that can be sailed, and two with fewer than 2
\* waypoints.
NavRoutes ==
    [r \in {1, 2, 3, 4} |->
        IF r = 1 THEN <<0, 20>> ELSE IF r = 2 THEN <<0, 20, 17>>
        ELSE IF r = 3 THEN <<0>> ELSE <<>>]
SailedRoutes == {1, 2}
ShortRoutes == {3, 4}

HistoryLimit == 100
SmoothingWindow == 5

Abs(x) == IF x < 0 THEN -x ELSE x

CalculateDistance(lat1, lat2) == Abs(lat2 - lat1)

CalculateBearing(lat1, lat2) == IF lat2 < lat1 THEN 180 ELSE 0

\* calculateRouteDistance over the first n legs.
RECURSIVE LegsDistance(_, _)
LegsDistance(waypoints, n) ==
    IF n <= 0 THEN 0
    ELSE LegsDistance(waypoints, n - 1) + CalculateDistance(waypoints[n], waypoints[n + 1])

CalculateRouteDistance(waypoints) == LegsDistance(waypoints, Len(waypoints) - 1)

\* isNearWaypoint with thresholdNM = 0.1 (2 units).
\* An isNearWaypoint that excludes the threshold distance itself.
IsNearWaypointStrict(lat, waypointLat) == CalculateDistance(lat, waypointLat) < 2

IsNearWaypoint(lat, waypointLat) == CalculateDistance(lat, waypointLat) <= 2

\* A calculateNavigationState whose terminal snapshot reports no progress.
CalculateNavigationStateUnfinished(position, waypoints, index) ==
    IF index + 2 > Len(waypoints) \/ index + 2 < 1
    THEN [lat |-> position.lat, heading |-> position.heading, speed |-> position.speed,
          nextWaypoint |-> 0, nextWaypointLat |-> 0,
          distanceToNext |-> 0, bearingToNext |-> 0,
          etaToNext |-> [num |-> 0, den |-> 1], progress |-> [num |-> 0, den |-> 1]]
    ELSE [lat |-> position.lat, heading |-> position.heading, speed |-> position.speed,
          nextWaypoint |-> index + 2, nextWaypointLat |-> waypoints[index + 2],
          distanceToNext |-> CalculateDistance(position.lat, waypoints[index + 2]),
          bearingToNext |-> CalculateBearing(position.lat, waypoints[index + 2]),
          etaToNext |->
              IF position.speed.num = 0 THEN [num |-> 0, den |-> 1]
              ELSE [num |-> CalculateDistance(position.lat, waypoints[index + 2])
                            * position.speed.den * 60,
                    den |-> position.speed.num],
          progress |-> [num |-> LegsDistance(waypoints, index) * 100,
                        den |-> CalculateRouteDistance(waypoints)]]

\* calculateNavigationState; nextWaypoint is the waypoint's index in the
\* route (1-based), 0 for null, and nextWaypointLat its latitude.  eta and
\* progress are fractions.
CalculateNavigationState(position, waypoints, index) ==
    IF index + 2 > Len(waypoints) \/ index + 2 < 1
    THEN [lat |-> position.lat, heading |-> position.heading, speed |-> position.speed,
          nextWaypoint |-> 0, nextWaypointLat |-> 0,
          distanceToNext |-> 0, bearingToNext |-> 0,
          etaToNext |-> [num |-> 0, den |-> 1], progress |-> [num |-> 100, den |-> 1]]
    ELSE [lat |-> position.lat, heading |-> position.heading, speed |-> position.speed,
          nextWaypoint |-> index + 2, nextWaypointLat |-> waypoints[index + 2],
          distanceToNext |-> CalculateDistance(position.lat, waypoints[index + 2]),
          bearingToNext |-> CalculateBearing(position.lat, waypoints[index + 2]),
          etaToNext |->
              IF position.speed.num = 0 THEN [num |-> 0, den |-> 1]
              ELSE [num |-> CalculateDistance(position.lat, waypoints[index + 2])
                            * position.speed.den * 60,
                    den |-> position.speed.num],
          progress |-> [num |-> LegsDistance(waypoints, index) * 100,
                        den |-> CalculateRouteDistance(waypoints)]]

NoState == [valid |-> FALSE]

\* One emit call: the event name, for an alert its type, severity and
\* autoClose, and the payload the claims read.
Event(name) ==
    [ev |-> name, type |-> "", severity |-> "", autoClose |-> FALSE, index |-> 0,
     message |-> "", state |-> NoState]

Alert(type, severity, autoClose) ==
    [ev |-> "alert", type |-> type, severity |-> severity, autoClose |-> autoClose,
     index |-> 0, message |-> "", state |-> NoState]

\* The controller together with the browser objects it acts on.
Nav ==
    [watchId |-> watchId, route |-> route, currentWaypointIndex |-> currentWaypointIndex,
     isNavigating |-> isNavigating, navigationHistory |-> navigationHistory,
     currentHeading |-> currentHeading, currentSpeed |-> currentSpeed,
     smoothedSpeeds |-> smoothedSpeeds, emitted |-> <<>>,
     activeWatches |-> activeWatches, watchCount |-> watchCount,
     orientationListeners |-> orientationListeners, bindCount |-> bindCount,
     activeRoute |-> activeRoute, cachedPositions |-> cachedPositions,
     listeners |-> listeners]

SetNav(s) ==
    /\ watchId' = s.watchId
    /\ route' = s.route
    /\ currentWaypointIndex' = s.currentWaypointIndex
    /\ isNavigating' = s.isNavigating
    /\ navigationHistory' = s.navigationHistory
    /\ currentHeading' = s.currentHeading
    /\ currentSpeed' = s.currentSpeed
    /\ smoothedSpeeds' = s.smoothedSpeeds
    /\ emitted' = s.emitted
    /\ activeWatches' = s.activeWatches
    /\ watchCount' = s.watchCount
    /\ orientationListeners' = s.orientationListeners
    /\ bindCount' = s.bindCount
    /\ activeRoute' = s.activeRoute
    /\ cachedPositions' = s.cachedPositions

\* The callbacks a caller registers: "f" and "g" only look at the event,
\* "stop" calls stopNavigation().
Callbacks == {"f", "g", "stop"}

\* The names of the events the controller emits.
EventNames ==
    {"navigationStarted", "navigationStopped", "navigationPaused", "navigationResumed",
     "waypointSkipped", "navigationUpdate", "alert", "waypointReached",
     "destinationReached", "headingUpdate"}

\* on(event, callback) keeping an earlier registration.
OnKeepFirst(registry, event, callback) ==
    IF registry[event] = "" THEN [registry EXCEPT ![event] = callback] ELSE registry

\* on(event, callback) and off(event) on the registry.
On(registry, event, callback) == [registry EXCEPT ![event] = callback]
Off(registry, event) == [registry EXCEPT ![event] = ""]

RECURSIVE StopNavigation(_)

\* emit(event, data): the registered callback, if any, is called, and runs
\* before emit returns.  `emitted` records every emit call.
Emit(s, e) ==
    LET logged == [s EXCEPT !.emitted = Append(@, e)]
    IN  IF s.listeners[e.ev] = "stop" THEN StopNavigation(logged) ELSE logged

\* The callbacks the emit calls of the last operation invoked, in order.
CallbacksCalled(registry, log) ==
    LET hit == {n \in 1..Len(log) : registry[log[n].ev] # ""}
        RECURSIVE Pick(_)
        Pick(n) == IF n > Len(log) THEN <<>>
                   ELSE IF n \in hit
                   THEN <<[callback |-> registry[log[n].ev], event |-> log[n]]>> \o Pick(n + 1)
                   ELSE Pick(n + 1)
    IN  Pick(1)

\* The function handleOrientation itself (never registered) and the k-th
\* function made by handleOrientation.bind(this).
HandleOrientationFn == 0
BoundFn(k) == k

\* stopNavigation
\* getStatus()
GetStatus(s) ==
    [isNavigating |-> s.isNavigating, route |-> s.route,
     currentWaypointIndex |-> s.currentWaypointIndex,
     historyLength |-> Len(s.navigationHistory)]

\* A stopNavigation that flips isNavigating instead of clearing it.
StopNavigationToggle(s) ==
    LET cleared == IF s.watchId # 0
                   THEN [s EXCEPT !.activeWatches = @ \ {s.watchId}, !.watchId = 0]
                   ELSE s
    IN  Emit([cleared EXCEPT !.isNavigating = ~s.isNavigating, !.route = 0,
                             !.currentWaypointIndex = 0],
             Event("navigationStopped"))

StopNavigation(s) ==
    LET cleared == IF s.watchId # 0
                   THEN [s EXCEPT !.activeWatches = @ \ {s.watchId}, !.watchId = 0]
                   ELSE s
        removed == IF env.orientation
                   THEN [cleared EXCEPT !.orientationListeners =
                            @ \ {[fn |-> HandleOrientationFn, capture |-> FALSE]}]
                   ELSE cleared
    IN  Emit([removed EXCEPT !.isNavigating = FALSE, !.route = 0,
                             !.currentWaypointIndex = 0],
             Event("navigationStopped"))

\* startNavigation up to `await this.requestPermissions()`.
StartNavigationBegin(s, r) ==
    LET stopped == IF s.isNavigating THEN StopNavigation(s) ELSE s
    IN  [stopped EXCEPT !.route = r, !.currentWaypointIndex = 0, !.isNavigating = TRUE,
                        !.navigationHistory = <<>>]

\* startGPSTracking
StartGPSTracking(s) ==
    IF ~env.geolocation
    THEN Emit(s, Alert("gps-error", "warning", FALSE))
    ELSE [s EXCEPT !.watchId = s.watchCount + 1, !.watchCount = s.watchCount + 1,
                   !.activeWatches = @ \cup {s.watchCount + 1}]

\* startCompassTracking
StartCompassTracking(s) ==
    IF env.orientation
    THEN [s EXCEPT !.bindCount = s.bindCount + 1,
                   !.orientationListeners =
                       @ \cup {[fn |-> BoundFn(s.bindCount + 1), capture |-> TRUE]}]
    ELSE s

\* cacheRouteData
CacheRouteData(s, r) == [s EXCEPT !.activeRoute = r]

\* startNavigation after the await.
StartNavigationResume(s, r) ==
    CacheRouteData(Emit(StartCompassTracking(StartGPSTracking(s)),
                        Event("navigationStarted")), r)

PauseNavigation(s) == Emit([s EXCEPT !.isNavigating = FALSE], Event("navigationPaused"))

\* A resumeNavigation without the route check of line 106.
ResumeNavigationUnguarded(s) ==
    Emit([s EXCEPT !.isNavigating = TRUE], Event("navigationResumed"))

ResumeNavigation(s) ==
    IF s.route # 0
    THEN Emit([s EXCEPT !.isNavigating = TRUE], Event("navigationResumed"))
    ELSE s

\* A skipToNextWaypoint bounded by length - 1 instead of length - 2.
SkipToNextWaypointLoose(s) ==
    IF s.route # 0 /\ s.currentWaypointIndex < Len(NavRoutes[s.route]) - 1
    THEN Emit([s EXCEPT !.currentWaypointIndex = @ + 1],
              [Event("waypointSkipped") EXCEPT !.index = s.currentWaypointIndex + 1])
    ELSE s

SkipToNextWaypoint(s) ==
    IF s.route # 0 /\ s.currentWaypointIndex < Len(NavRoutes[s.route]) - 2
    THEN Emit([s EXCEPT !.currentWaypointIndex = @ + 1],
              [Event("waypointSkipped") EXCEPT !.index = s.currentWaypointIndex + 1])
    ELSE s

\* A smoothSpeed that keeps one reading more.
SmoothedBufferWider(speeds, newSpeed) ==
    IF Len(speeds) + 1 > SmoothingWindow + 1 THEN Tail(Append(speeds, newSpeed))
    ELSE Append(speeds, newSpeed)

\* smoothSpeed: the buffer after the push and shift, and the mean.
SmoothedBuffer(speeds, newSpeed) ==
    IF Len(speeds) + 1 > SmoothingWindow THEN Tail(Append(speeds, newSpeed))
    ELSE Append(speeds, newSpeed)

RECURSIVE Sum(_)
Sum(seq) == IF seq = <<>> THEN 0 ELSE Head(seq) + Sum(Tail(seq))

Mean(speeds) == [num |-> Sum(speeds), den |-> Len(speeds)]

\* A handleDestinationReached without the stopNavigation() of line 401.
HandleDestinationReachedNoStop(s) ==
    IF s.route = 0 THEN s
    ELSE Emit(Emit(s, Alert("destination-reached", "success", FALSE)),
              Event("destinationReached"))

\* handleDestinationReached
HandleDestinationReached(s) ==
    IF s.route = 0 THEN s
    ELSE StopNavigation(Emit(Emit(s, Alert("destination-reached", "success", FALSE)),
                             Event("destinationReached")))

\* A handleWaypointReached that moves the cursor past two waypoints.
HandleWaypointReachedTwice(s) ==
    LET moved == [s EXCEPT !.currentWaypointIndex = @ + 2]
    IN  IF moved.route # 0
           /\ moved.currentWaypointIndex >= Len(NavRoutes[moved.route]) - 1
        THEN HandleDestinationReached(moved)
        ELSE Emit(Emit(moved, Alert("waypoint-reached", "success", FALSE)),
                  [Event("waypointReached") EXCEPT !.index = moved.currentWaypointIndex])

\* handleWaypointReached
HandleWaypointReached(s) ==
    LET moved == [s EXCEPT !.currentWaypointIndex = @ + 1]
    IN  IF moved.route # 0
           /\ moved.currentWaypointIndex >= Len(NavRoutes[moved.route]) - 1
        THEN HandleDestinationReached(moved)
        ELSE Emit(Emit(moved, Alert("waypoint-reached", "success", FALSE)),
                  [Event("waypointReached") EXCEPT !.index = moved.currentWaypointIndex])

\* A checkWaypointProximity that announces the approach at 0.5 NM itself.
CheckWaypointProximityWide(s, lat, navState) ==
    IF navState.nextWaypoint = 0 THEN s
    ELSE LET approaching == navState.distanceToNext <= 10 /\ navState.distanceToNext > 2
             s1 == IF approaching
                   THEN Emit(s, Alert("waypoint-approaching", "info", TRUE))
                   ELSE s
         IN  IF IsNearWaypoint(lat, navState.nextWaypointLat)
             THEN HandleWaypointReached(s1)
             ELSE s1

\* checkWaypointProximity: 0.5 NM is 10 units, waypointThresholdNM 2 units.
CheckWaypointProximity(s, lat, navState) ==
    IF navState.nextWaypoint = 0 THEN s
    ELSE LET approaching == navState.distanceToNext < 10 /\ navState.distanceToNext > 2
             s1 == IF approaching
                   THEN Emit(s, Alert("waypoint-approaching", "info", TRUE))
                   ELSE s
         IN  IF IsNearWaypoint(lat, navState.nextWaypointLat)
             THEN HandleWaypointReached(s1)
             ELSE s1

\* A checkCourseDeviation that alerts at a difference of exactly 45 too.
CheckCourseDeviationInclusive(s, navState) ==
    IF navState.nextWaypoint = 0 THEN s
    ELSE LET headingDifference == Abs(navState.bearingToNext - navState.heading)
             normalizedDiff == IF headingDifference <= 360 - headingDifference
                               THEN headingDifference ELSE 360 - headingDifference
         IN  IF normalizedDiff >= 45
             THEN Emit(s, Alert("course-correction", "warning", TRUE))
             ELSE s

\* checkCourseDeviation: the speed is below 0.5 knots iff 2 * num < den * 1e7.
\* The alert's index is 1 for 'left' and 0 for 'right'.
CheckCourseDeviation(s, navState) ==
    IF navState.nextWaypoint = 0 THEN s
    ELSE LET headingDifference == Abs(navState.bearingToNext - navState.heading)
             normalizedDiff == IF headingDifference <= 360 - headingDifference
                               THEN headingDifference ELSE 360 - headingDifference
             s1 == IF normalizedDiff > 45
                   THEN Emit(s, [Alert("course-correction", "warning", TRUE) EXCEPT
                                    !.index = IF normalizedDiff > 180 THEN 1 ELSE 0])
                   ELSE s
         IN  IF 2 * navState.speed.num < navState.speed.den * 10000000
             THEN Emit(s1, Alert("low-speed", "info", TRUE))
             ELSE s1

\* cachePosition: the list grows by one and keeps its last 100 entries.
CachePosition(s) ==
    [s EXCEPT !.cachedPositions = IF @ + 1 > HistoryLimit THEN @ ELSE @ + 1]

\* A history that is never trimmed.
PushHistoryUnbounded(history, entry) == Append(history, entry)

\* navigationHistory.push(entry) and the shift() of lines 218-220.
PushHistory(history, entry) ==
    LET pushed == Append(history, entry)
    IN  IF Len(pushed) > HistoryLimit THEN Tail(pushed) ELSE pushed

\* A handlePositionUpdate that checks the course before the waypoint.
ProcessPositionCourseFirst(s, fix) ==
    LET heading == IF fix.heading.k # "null" THEN fix.heading.v ELSE s.currentHeading
        speedKnots == IF fix.speed.k = "num" /\ fix.speed.v # 0
                      THEN fix.speed.v * 194384 ELSE 0
        buffer == SmoothedBuffer(s.smoothedSpeeds, speedKnots)
        speed == Mean(buffer)
        history == PushHistory(s.navigationHistory, [lat |-> fix.lat, speed |-> speed])
        s1 == [s EXCEPT !.currentHeading = heading, !.smoothedSpeeds = buffer,
                        !.currentSpeed = speed, !.navigationHistory = history]
        navState == CalculateNavigationState(
                        [lat |-> fix.lat, heading |-> heading, speed |-> speed],
                        NavRoutes[s1.route], s1.currentWaypointIndex)
        s2 == Emit(s1, [Event("navigationUpdate") EXCEPT
                           !.state = [navState EXCEPT !.lat = fix.lat]])
    IN  CachePosition(CheckWaypointProximity(CheckCourseDeviation(s2, navState),
                                             fix.lat, navState))

\* handlePositionUpdate after its guard; fix = [lat, speed, heading], speed
\* in cm/s.
ProcessPosition(s, fix) ==
    LET heading == IF fix.heading.k # "null" THEN fix.heading.v ELSE s.currentHeading
        speedKnots == IF fix.speed.k = "num" /\ fix.speed.v # 0
                      THEN fix.speed.v * 194384 ELSE 0
        buffer == SmoothedBuffer(s.smoothedSpeeds, speedKnots)
        speed == Mean(buffer)
        history == PushHistory(s.navigationHistory, [lat |-> fix.lat, speed |-> speed])
        s1 == [s EXCEPT !.currentHeading = heading, !.smoothedSpeeds = buffer,
                        !.currentSpeed = speed, !.navigationHistory = history]
        navState == CalculateNavigationState(
                        [lat |-> fix.lat, heading |-> heading, speed |-> speed],
                        NavRoutes[s1.route], s1.currentWaypointIndex)
        s2 == Emit(s1, [Event("navigationUpdate") EXCEPT
                           !.state = [navState EXCEPT !.lat = fix.lat]])
    IN  CachePosition(CheckCourseDeviation(CheckWaypointProximity(s2, fix.lat, navState),
                                           navState))

\* A handlePositionUpdate whose guard of line 196 ignores isNavigating.
HandlePositionUpdateWhilePaused(s, fix) ==
    IF s.route = 0 THEN s ELSE ProcessPosition(s, fix)

\* handlePositionUpdate
HandlePositionUpdate(s, fix) ==
    IF s.route = 0 \/ ~s.isNavigating THEN s ELSE ProcessPosition(s, fix)

\* useDeadReckoning: the estimate is logged only.
UseDeadReckoning(s) == s

\* The message of handlePositionError's switch; PERMISSION_DENIED is 1,
\* POSITION_UNAVAILABLE 2 and TIMEOUT 3.
ErrorMessage(code) ==
    CASE code = 1 -> "GPS permission denied. Please enable location services."
      [] code = 2 -> "GPS position unavailable. Using last known position."
      [] code = 3 -> "GPS timeout. Retrying..."
      [] OTHER -> "GPS error occurred"

\* A handlePositionError that gives up the session when permission is denied.
HandlePositionErrorAborting(s, code) ==
    LET alerted == Emit(s, [Alert("gps-error", "warning", FALSE) EXCEPT
                               !.message = ErrorMessage(code)])
    IN  IF code = 1 THEN StopNavigation(alerted) ELSE alerted

\* handlePositionError
HandlePositionError(s, code) ==
    LET alerted == Emit(s, [Alert("gps-error", "warning", FALSE) EXCEPT
                               !.message = ErrorMessage(code)])
    IN  IF Len(alerted.navigationHistory) > 0 THEN UseDeadReckoning(alerted) ELSE alerted

\* handleOrientation; alpha is a number or null.
HandleOrientation(s, alpha) ==
    IF alpha.k # "null"
    THEN Emit([s EXCEPT !.currentHeading = alpha.v], Event("headingUpdate"))
    ELSE s

\* ------------------------------------------------------ navigation actions
NavInit ==
    /\ watchId = 0
    /\ route = 0
    /\ currentWaypointIndex = 0
    /\ isNavigating = FALSE
    /\ navigationHistory = <<>>
    /\ currentHeading = 0
    /\ currentSpeed = [num |-> 0, den |-> 1]
    /\ smoothedSpeeds = <<>>
    /\ emitted = <<>>
    /\ pendingStarts = <<>>
    /\ activeWatches = {}
    /\ watchCount = 0
    /\ orientationListeners = {}
    /\ bindCount = 0
    /\ activeRoute = 0
    /\ cachedPositions = 0
    /\ env \in {[geolocation |-> TRUE, orientation |-> TRUE],
                [geolocation |-> TRUE, orientation |-> FALSE],
                [geolocation |-> FALSE, orientation |-> TRUE]}
    /\ starts = 0
    /\ fixes = 0
    /\ lastCall = "none"
    /\ listeners = [e \in EventNames |-> ""]
    /\ regLog = <<>>

\* A call startNavigation(r): it runs to its await, or throws in
\* requestPermissions when the browser has no geolocation.
CallStartNavigation(r) ==
    /\ starts < MaxStarts
    /\ starts' = starts + 1
    /\ lastCall' = "startNavigation"
    /\ SetNav(StartNavigationBegin(Nav, r))
    /\ pendingStarts' = IF env.geolocation THEN Append(pendingStarts, r) ELSE pendingStarts
    /\ UNCHANGED <<chartVars, pureVars, registryVars, env, fixes>>

\* The k-th suspended startNavigation resumes and runs to its end.
ResumeStartNavigation(k) ==
    /\ k \in 1..Len(pendingStarts)
    /\ lastCall' = "startNavigation resumed"
    /\ SetNav(StartNavigationResume(Nav, pendingStarts[k]))
    /\ pendingStarts' = [i \in 1..(Len(pendingStarts) - 1) |->
                            IF i < k THEN pendingStarts[i] ELSE pendingStarts[i + 1]]
    /\ UNCHANGED <<chartVars, pureVars, registryVars, env, starts, fixes>>

CallStopNavigation ==
    /\ lastCall' = "stopNavigation"
    /\ SetNav(StopNavigation(Nav))
    /\ UNCHANGED <<chartVars, pureVars, registryVars, pendingStarts, env, starts, fixes>>

CallPauseNavigation ==
    /\ lastCall' = "pauseNavigation"
    /\ SetNav(PauseNavigation(Nav))
    /\ UNCHANGED <<chartVars, pureVars, registryVars, pendingStarts, env, starts, fixes>>

CallResumeNavigation ==
    /\ lastCall' = "resumeNavigation"
    /\ SetNav(ResumeNavigation(Nav))
    /\ UNCHANGED <<chartVars, pureVars, registryVars, pendingStarts, env, starts, fixes>>

CallSkipToNextWaypoint ==
    /\ lastCall' = "skipToNextWaypoint"
    /\ SetNav(SkipToNextWaypoint(Nav))
    /\ UNCHANGED <<chartVars, pureVars, registryVars, pendingStarts, env, starts, fixes>>

\* The success callback of an active position watch.
PositionUpdate(w, fix) ==
    /\ w \in activeWatches
    /\ fixes < MaxFixes
    /\ fixes' = fixes + 1
    /\ lastCall' = "handlePositionUpdate"
    /\ SetNav(HandlePositionUpdate(Nav, fix))
    /\ UNCHANGED <<chartVars, pureVars, registryVars, pendingStarts, env, starts>>

\* The error callback of an active position watch.
PositionError(w, code) ==
    /\ w \in activeWatches
    /\ lastCall' = "handlePositionError"
    /\ SetNav(HandlePositionError(Nav, code))
    /\ UNCHANGED <<chartVars, pureVars, registryVars, pendingStarts, env, starts, fixes>>

\* A deviceorientation event reaches one registered listener.
OrientationEvent(l, alpha) ==
    /\ l \in orientationListeners
    /\ lastCall' = "handleOrientation"
    /\ SetNav(HandleOrientation(Nav, alpha))
    /\ UNCHANGED <<chartVars, pureVars, registryVars, pendingStarts, env, starts, fixes>>

\* on(event, callback)
CallOn(event, callback) ==
    /\ Len(regLog) < MaxRegs
    /\ regLog' = Append(regLog, [op |-> "on", event |-> event, callback |-> callback])
    /\ listeners' = On(listeners, event, callback)
    /\ lastCall' = "on"
    /\ emitted' = <<>>
    /\ UNCHANGED <<chartVars, pureVars, watchId, route, currentWaypointIndex, isNavigating,
                   navigationHistory, currentHeading, currentSpeed, smoothedSpeeds,
                   pendingStarts, activeWatches, watchCount, orientationListeners,
                   bindCount, activeRoute, cachedPositions, env, starts, fixes>>

\* off(event)
CallOff(event) ==
    /\ Len(regLog) < MaxRegs
    /\ regLog' = Append(regLog, [op |-> "off", event |-> event, callback |-> ""])
    /\ listeners' = Off(listeners, event)
    /\ lastCall' = "off"
    /\ emitted' = <<>>
    /\ UNCHANGED <<chartVars, pureVars, watchId, route, currentWaypointIndex, isNavigating,
                   navigationHistory, currentHeading, currentSpeed, smoothedSpeeds,
                   pendingStarts, activeWatches, watchCount, orientationListeners,
                   bindCount, activeRoute, cachedPositions, env, starts, fixes>>

\* The fixes, error codes and compass readings the device delivers.
Fixes ==
    [lat : {12, 18, 30}, speed : {Null, Num(50)}, heading : {Null, Num(100)}]
ErrorCodes == {1, 2, 3}
Alphas == {Null, Num(315)}

NavNext ==
    \/ \E r \in SailedRoutes : CallStartNavigation(r)
    \/ \E k \in 1..Len(pendingStarts) : ResumeStartNavigation(k)
    \/ CallStopNavigation
    \/ CallPauseNavigation
    \/ CallResumeNavigation
    \/ CallSkipToNextWaypoint
    \/ \E w \in activeWatches, fix \in Fixes : PositionUpdate(w, fix)
    \/ \E w \in activeWatches, code \in ErrorCodes : PositionError(w, code)
    \/ \E l \in orientationListeners, alpha \in Alphas : OrientationEvent(l, alpha)

\* The controller with callers that register callbacks: the events they
\* listen to and the fixes delivered.  The callback that stops the session
\* listens to navigationUpdate.
RegistryEvents == {"alert", "navigationUpdate"}
RegistryFixes == {f \in Fixes : f.speed = Null /\ f.heading = Null /\ f.lat \in {12, 18}}

RegistryNext ==
    \/ \E e \in RegistryEvents, f \in Callbacks :
          (f = "stop" => e = "navigationUpdate") /\ CallOn(e, f)
    \/ \E e \in RegistryEvents : CallOff(e)
    \/ CallStartNavigation(1)
    \/ \E k \in 1..Len(pendingStarts) : ResumeStartNavigation(k)
    \/ \E w \in activeWatches, fix \in RegistryFixes : PositionUpdate(w, fix)
    \/ \E w \in activeWatches, code \in ErrorCodes : PositionError(w, code)

\* =========================================================== route planning
\* Waypoints of a planned route lie on one meridian: [lat, type], lat in
\* units of 0.05 NM.  A quotient a / b of JavaScript is a fraction, Infinity
\* for b = 0 < a, and NaN for 0 / 0.
Infinity == [k |-> "Infinity", v |-> 0]

Divide(a, b) ==
    IF b = 0 THEN (IF a = 0 THEN NaN ELSE Infinity)
    ELSE [k |-> "num", v |-> [num |-> a, den |-> b]]

Lats(waypoints) == [i \in 1..Len(waypoints) |-> waypoints[i].lat]

\* generateRoute(start, destination, averageSpeed)
GenerateRoute(start, destination, averageSpeed) ==
    LET waypoints == <<[lat |-> start, type |-> "start"],
                       [lat |-> destination, type |-> "destination"]>>
        distance == CalculateRouteDistance(Lats(waypoints))
    IN  [waypoints |-> waypoints,
         totalDistance |-> distance,
         estimatedTime |-> Divide(distance, averageSpeed),
         averageSpeed |-> averageSpeed]

\* Array.prototype.splice(start, 0, item) on a copy: a negative start counts
\* from the end, and start is clamped to [0, length].
Splice(array, start, item) ==
    LET len == Len(array)
        actualStart == IF start < 0 THEN (IF len + start < 0 THEN 0 ELSE len + start)
                       ELSE (IF start > len THEN len ELSE start)
    IN  SubSeq(array, 1, actualStart) \o <<item>> \o SubSeq(array, actualStart + 1, len)

\* An addWaypoint that keeps the distance and time of the route it is given.
AddWaypointStale(r, lat, insertIndex) ==
    LET newWaypoint == [lat |-> lat, type |-> "waypoint"]
        newWaypoints == IF insertIndex.k # "undef"
                        THEN Splice(r.waypoints, insertIndex.v, newWaypoint)
                        ELSE Splice(r.waypoints, Len(r.waypoints) - 1, newWaypoint)
    IN  [route |-> r, result |-> [r EXCEPT !.waypoints = newWaypoints]]

\* addWaypoint(route, waypoint, insertIndex): the route object it was given,
\* as the call leaves it, and the route it returns.
AddWaypoint(r, lat, insertIndex) ==
    LET newWaypoint == [lat |-> lat, type |-> "waypoint"]
        newWaypoints == IF insertIndex.k # "undef"
                        THEN Splice(r.waypoints, insertIndex.v, newWaypoint)
                        ELSE Splice(r.waypoints, Len(r.waypoints) - 1, newWaypoint)
        totalDistance == CalculateRouteDistance(Lats(newWaypoints))
    IN  [route |-> r,
         result |-> [r EXCEPT !.waypoints = newWaypoints,
                              !.totalDistance = totalDistance,
                              !.estimatedTime = Divide(totalDistance, r.averageSpeed)]]

\* ------------------------------------------------------- long sessions
\* The service after construction, after startNavigation(1) has completed,
\* and after n further fixes away from the waypoints were processed.
Constructed ==
    [watchId |-> 0, route |-> 0, currentWaypointIndex |-> 0, isNavigating |-> FALSE,
     navigationHistory |-> <<>>, currentHeading |-> 0,
     currentSpeed |-> [num |-> 0, den |-> 1], smoothedSpeeds |-> <<>>,
     emitted |-> <<>>, activeWatches |-> {}, watchCount |-> 0,
     orientationListeners |-> {}, bindCount |-> 0, activeRoute |-> 0,
     cachedPositions |-> 0, listeners |-> [e \in EventNames |-> ""]]

LongFix(i) == [lat |-> IF i % 2 = 1 THEN 12 ELSE 30, speed |-> Null, heading |-> Null]

\* The fixes LongFix(lo) .. LongFix(hi) processed one after the other.
RECURSIVE AfterFixes(_, _, _)
AfterFixes(s, lo, hi) ==
    IF lo > hi THEN s
    ELSE IF lo = hi THEN HandlePositionUpdate([s EXCEPT !.emitted = <<>>], LongFix(lo))
    ELSE LET mid == (lo + hi) \div 2
             half == AfterFixes(s, lo, mid)
         IN  IF half.cachedPositions >= 0 THEN AfterFixes(half, mid + 1, hi) ELSE s

\* Lengths of the history at which a behaviour starts.
HistoryStarts == {0, 98, 99, 100}

SessionInit ==
    /\ env = [geolocation |-> TRUE, orientation |-> TRUE]
    /\ \E n \in HistoryStarts :
        LET s == AfterFixes(StartNavigationResume(StartNavigationBegin(Constructed, 1), 1),
                            1, n)
        IN  /\ watchId = s.watchId
            /\ route = s.route
            /\ currentWaypointIndex = s.currentWaypointIndex
            /\ isNavigating = s.isNavigating
            /\ navigationHistory = s.navigationHistory
            /\ currentHeading = s.currentHeading
            /\ currentSpeed = s.currentSpeed
            /\ smoothedSpeeds = s.smoothedSpeeds
            /\ emitted = s.emitted
            /\ pendingStarts = <<>>
            /\ activeWatches = s.activeWatches
            /\ watchCount = s.watchCount
            /\ orientationListeners = s.orientationListeners
            /\ bindCount = s.bindCount
            /\ activeRoute = s.activeRoute
            /\ cachedPositions = s.cachedPositions
            /\ starts = 1
            /\ fixes = 0
            /\ lastCall = IF n = 0 THEN "startNavigation resumed" ELSE "handlePositionUpdate"
            /\ listeners = s.listeners
            /\ regLog = <<>>

HistoryNext ==
    \/ \E r \in SailedRoutes : CallStartNavigation(r)
    \/ \E k \in 1..Len(pendingStarts) : ResumeStartNavigation(k)
    \/ CallStopNavigation
    \/ CallPauseNavigation
    \/ CallResumeNavigation
    \/ \E w \in activeWatches, fix \in Fixes : PositionUpdate(w, fix)
    \/ \E w \in activeWatches, code \in ErrorCodes : PositionError(w, code)

\* ------------------------------------------------- routes from one corner
\* Two routes whose south-westernmost waypoint is the same: a short leg and
\* a longer route reaching further north and east.
CornerRoutes ==
    { <<WP(12, 12), WP(12, 30)>>,
      <<WP(12, 12), WP(40, 60)>> }

CornerNext ==
    \/ \E w \in CornerRoutes, d \in Drafts, m \in Margins, r \in Responses :
          AnalyzeRouteHazards(w, d, m, r)
    \/ \E dt \in {1, CacheTtlMs - 1} : Tick(dt)

\* ------------------------------------------------------- invalid routes
\* Callers that pass an empty waypoint list to analyzeRouteHazards and a
\* route of fewer than 2 waypoints to startNavigation.
InvalidNext ==
    \/ \E w \in EmptyRoutes, d \in Drafts, m \in Margins, r \in Responses :
          AnalyzeRouteHazards(w, d, m, r)
    \/ \E r \in ShortRoutes : CallStartNavigation(r)
    \/ \E k \in 1..Len(pendingStarts) : ResumeStartNavigation(k)
    \/ CallStopNavigation
    \/ \E w \in activeWatches, fix \in RegistryFixes : PositionUpdate(w, fix)

\* ------------------------------------------------------------ fix route
\* handleFixRoute of the route planning view, for a route along a meridian
\* (longitude 0): the waypoints of the route it sets, or of the route it
\* leaves when nothing is inserted.  On such a leg the avoidance waypoint
\* has the latitude of the leg's midpoint (midLat2 / 2, perpY = 0); it is
\* offset in longitude only.  hazards is hazardAnalysis.hazards.
\* criticalHazards.forEach(...): hazards n, n + 1, ... of the critical ones.
RECURSIVE FixLoop(_, _, _, _)
FixLoop(route0, updated, critical, n) ==
    IF n > Len(critical) THEN updated
    ELSE LET segmentIndex == critical[n].waypointSegment
             start == route0.waypoints[segmentIndex + 1]
             end == route0.waypoints[segmentIndex + 2]
             avoidance == SuggestHazardAvoidance(critical[n].hazard, WP(start.lat, 0),
                                                 WP(end.lat, 0), 500)
         IN  IF avoidance.k = "waypoint"
             THEN FixLoop(route0,
                          AddWaypoint(updated, avoidance.midLat2 \div 2,
                                      Num(segmentIndex + 1)).result,
                          critical, n + 1)
             ELSE FixLoop(route0, updated, critical, n + 1)

HandleFixRoute(route0, hazards) ==
    LET critical == SelectSeq(hazards, LAMBDA h : h.hazard.severity = "critical")
    IN  IF critical = <<>> THEN route0 ELSE FixLoop(route0, route0, critical, 1)

\* ====================================================== functions called
\* directly, on values a caller builds by hand.
AttachedOf(severity) == [hazard |-> [severity |-> severity]]

\* RouteAnalysis values, consistent or not: isSafe, the attached hazards'
\* severities, minDepth (dm).
HandAnalyses ==
    [isSafe : BOOLEAN,
     hazards : { <<>>, <<AttachedOf("critical")>>, <<AttachedOf("danger")>>,
                 <<AttachedOf("warning")>>, <<AttachedOf("info")>>,
                 <<AttachedOf("warning"), AttachedOf("critical")>>,
                 <<AttachedOf("danger"), AttachedOf("warning")>> },
     minDepth : {Null, NaN, Num(0), Num(5), Num(9), Num(10), Num(11), Num(30)}]

CallRequiresRerouting(a) ==
    /\ pureCall' = [fn |-> "requiresRerouting", input |-> a,
                    output |-> RequiresRerouting(a)]
    /\ UNCHANGED <<chartVars, navVars>>

\* Headings and bearings in [0, 360), and speeds of 0 and 0.97 knots.
Angles == {0, 15, 44, 45, 46, 90, 135, 180, 181, 225, 270, 314, 315, 316, 359}
PureSpeeds == {[num |-> 0, den |-> 1], [num |-> 9719200, den |-> 1]}

\* checkCourseDeviation(navState) for a state with a next waypoint.
CallCheckCourseDeviation(bearing, heading, speed) ==
    /\ pureCall' =
          [fn |-> "checkCourseDeviation",
           input |-> [bearingToNext |-> bearing, heading |-> heading, speed |-> speed],
           output |-> CheckCourseDeviation(
                          Nav, [nextWaypoint |-> 2, nextWaypointLat |-> 0,
                                bearingToNext |-> bearing,
                                heading |-> heading, speed |-> speed]).emitted]
    /\ UNCHANGED <<chartVars, navVars>>

\* Latitudes, speeds (knots) and insert positions a planner passes.
PlanLats == {0, 12, 20}
PlanSpeeds == {0, 5}
InsertIndexes == {Undef, Num(-1), Num(0), Num(1), Num(5)}

CallGenerateRoute(start, destination, averageSpeed) ==
    /\ pureCall' = [fn |-> "generateRoute",
                    input |-> [start |-> start, destination |-> destination,
                               averageSpeed |-> averageSpeed],
                    output |-> GenerateRoute(start, destination, averageSpeed)]
    /\ UNCHANGED <<chartVars, navVars>>

\* addWaypoint on the route the previous call returned.
CallAddWaypoint(lat, insertIndex) ==
    /\ pureCall.fn \in {"generateRoute", "addWaypoint"}
    /\ Len(pureCall.output.waypoints) < MaxPlanned
    /\ LET r == AddWaypoint(pureCall.output, lat, insertIndex)
       IN  pureCall' = [fn |-> "addWaypoint",
                        input |-> [route |-> pureCall.output, lat |-> lat,
                                   insertIndex |-> insertIndex],
                        inputAfter |-> r.route,
                        output |-> r.result]
    /\ UNCHANGED <<chartVars, navVars>>

\* Waypoint lists (latitudes), empty and single ones included, the cursors
\* and the positions calculateNavigationState is called with.
PureRoutes == {<<>>, <<0>>, <<0, 0>>, <<0, 20>>, <<0, 20, 17>>, <<5, 5, 25>>}
PurePositions == [lat : {0, 12}, heading : {Num(0)}, speed : PureSpeeds]

CallCalculateNavigationState(position, waypoints, index) ==
    /\ pureCall' = [fn |-> "calculateNavigationState",
                    input |-> [position |-> position, waypoints |-> waypoints,
                               index |-> index],
                    output |-> CalculateNavigationState(position, waypoints, index)]
    /\ UNCHANGED <<chartVars, navVars>>

\* Hazards (type, radius in m; 0 when the radius is missing), leg ends and
\* safety margins suggestHazardAvoidance is called with.
AvoidedHazards == [type : {"rock", "wreck"}, radius : {0, 200}]
LegEnds == {WP(0, 0), WP(0, 3), WP(4, 0), WP(4, 3)}
AvoidMargins == {0, 500}

CallSuggestHazardAvoidance(hazard, start, end, safetyMargin) ==
    /\ pureCall' = [fn |-> "suggestHazardAvoidance",
                    input |-> [hazard |-> hazard, start |-> start, end |-> end,
                               safetyMargin |-> safetyMargin],
                    output |-> SuggestHazardAvoidance(hazard, start, end, safetyMargin)]
    /\ UNCHANGED <<chartVars, navVars>>

\* The routes of the planning view (2 and 3 waypoints at latitudes 0, 20,
\* 40) and the hazards an analysis attaches to their legs, in the order of
\* the legs.
FixRoutes ==
    { GenerateRoute(0, 40, 5), AddWaypoint(GenerateRoute(0, 40, 5), 20, Undef).result }

AttachedHazards ==
    [hazard : [severity : {"critical", "warning"}, type : {"restricted_area"},
               radius : {500}],
     waypointSegment : {0, 1}]

FixAnalyses(r) ==
    {hs \in UNION {[1..n -> AttachedHazards] : n \in 0..MaxCritical} :
        /\ \A n \in 1..Len(hs) : hs[n].waypointSegment <= Len(r.waypoints) - 2
        /\ \A i, j \in 1..Len(hs) : i < j => hs[i].waypointSegment <= hs[j].waypointSegment}

CallHandleFixRoute(r, hazards) ==
    /\ pureCall' = [fn |-> "handleFixRoute",
                    input |-> [route |-> r, hazards |-> hazards],
                    output |-> HandleFixRoute(r, hazards)]
    /\ UNCHANGED <<chartVars, navVars>>

PureNext ==
    \/ \E a \in HandAnalyses : CallRequiresRerouting(a)
    \/ \E b \in Angles, h \in Angles, v \in PureSpeeds : CallCheckCourseDeviation(b, h, v)
    \/ \E a \in PlanLats, b \in PlanLats, v \in PlanSpeeds : CallGenerateRoute(a, b, v)
    \/ \E a \in PlanLats, i \in InsertIndexes : CallAddWaypoint(a, i)
    \/ \E p \in PurePositions, w \in PureRoutes :
          \E k \in 0..(Len(w) + 1) : CallCalculateNavigationState(p, w, k)
    \/ \E h \in AvoidedHazards, a \in LegEnds, b \in LegEnds, m \in AvoidMargins :
          CallSuggestHazardAvoidance(h, a, b, m)
    \/ \E r \in FixRoutes : \E hs \in FixAnalyses(r) : CallHandleFixRoute(r, hs)

\* --------------------------------------------------------- specifications
NoCall == [fn |-> "none"]

PureInit == pureCall = NoCall

Init == ChartInit /\ NavInit /\ PureInit

\* The chart service alone; it reads no sensor, so one browser is enough.
InitChart == Init /\ env.geolocation /\ env.orientation

SpecChart == InitChart /\ [][ChartNext]_vars

SpecNav == Init /\ [][NavNext]_vars

\* The controller and the callers' callbacks, in a browser with both sensors.
SpecRegistry == InitChart /\ [][RegistryNext]_vars

\* The chart service asked about routes that share a corner.
SpecCorner == InitChart /\ [][CornerNext]_vars

\* Callers that pass invalid routes.
SpecInvalid == InitChart /\ [][InvalidNext]_vars

\* Sessions that already hold a long history.
InitHistory == ChartInit /\ SessionInit /\ PureInit

SpecHistory == InitHistory /\ [][HistoryNext]_vars

\* The functions called directly; they read no sensor either.
SpecPure == InitChart /\ [][PureNext]_vars


\* ------------------------------------------------------- claims: the chart
Legs(waypoints) == 0..(Len(waypoints) - 2)

HasCritical(routeHazards) ==
    \E n \in 1..Len(routeHazards) : routeHazards[n].hazard.severity = "critical"

\* C1: for every analysis returned by analyzeRouteHazards, isSafe is false iff
\* some hazard attached to a leg has severity critical, or minDepth is known
\* (not null) and minDepth < vesselDraft + 1.0.
C1_IsSafeIff ==
    analysis.valid =>
        (~analysis.result.isSafe <=>
            \/ HasCritical(analysis.result.hazards)
            \/ /\ analysis.result.minDepth.k # "null"
               /\ JsLt(analysis.result.minDepth, Num(analysis.vesselDraft + 10)))

\* C8: whenever the service returns a node classified critical whose position
\* lies on a route leg i (also at latitude 0 or longitude 0), the analysis
\* reports isSafe = false and lists that hazard with waypointSegment = i.
C8_CriticalNodeOnLegReported ==
    (analysis.valid /\ analysis.response.outcome = "ok") =>
        \A n \in 1..Len(analysis.response.data.elements) :
            \A i \in Legs(analysis.waypoints) :
                LET e == analysis.response.data.elements[n]
                    onLeg == DistanceFromLineSegment([lat |-> e.lat, lon |-> e.lon],
                                                     analysis.waypoints[i + 1],
                                                     analysis.waypoints[i + 2]).num = 0
                IN  (/\ e.type = "node"
                     /\ ClassifySeamark(e.tags.seamarkType, e.tags.wreckCategory).severity
                            = "critical"
                     /\ onLeg)
                    => /\ ~analysis.result.isSafe
                       /\ \E m \in 1..Len(analysis.result.hazards) :
                             /\ analysis.result.hazards[m].hazard.id = e.id
                             /\ analysis.result.hazards[m].waypointSegment = i

\* A step that is a fetchNauticalHazards call whose request failed.
FailedFetchStep == fetches' = fetches + 1 /\ analysis'.response.outcome # "ok"

\* C9: when the request fails, fetchNauticalHazards returns the snapshot
\* cached for the requested box iff its age is strictly less than 7 days and
\* the empty list otherwise, writes no cache entry, and after a successful
\* fetch for the same box less than 7 days ago returns the hazards that fetch
\* returned.
C9_FailedFetchReturnsCache ==
    [][FailedFetchStep =>
        LET key == CacheKey(analysis'.bbox)
            fresh == storage[key].present /\ now - storage[key].timestamp < CacheTtlMs
        IN  /\ storage' = storage
            /\ analysis'.fetched = IF fresh THEN storage[key].hazards ELSE <<>>
            /\ (/\ returned[key].present
                /\ returned[key].bbox = analysis'.bbox
                /\ now - returned[key].at < CacheTtlMs)
               => analysis'.fetched = returned[key].hazards]_vars

\* C10: when the fetch fails and no fresh snapshot is cached, the analysis'
\* warnings or recommendations differ from those after a successful fetch that
\* found no hazards, and it does not say that no hazards were detected.
C10_UnknownStateVisible ==
    LET key == CacheKey(analysis.bbox)
        fresh == storage[key].present /\ analysis.at - storage[key].timestamp < CacheTtlMs
        clean == AnalyzeHazards(analysis.waypoints, <<>>, analysis.vesselDraft,
                                analysis.safetyMargin)
    IN  (analysis.valid /\ analysis.response.outcome # "ok" /\ ~fresh) =>
            /\ <<analysis.result.warnings, analysis.result.recommendations>>
                  # <<clean.warnings, clean.recommendations>>
            /\ \A n \in 1..Len(analysis.result.recommendations) :
                  analysis.result.recommendations[n].text
                      # "No major hazards detected along route"

\* ------------------------------------------------ claims: the navigation
\* C2: in every state in which no startNavigation is in flight, an active
\* position watch or orientation listener exists only if the controller holds
\* a route (navigating or paused).
C2_NoSubscriptionWithoutRoute ==
    pendingStarts = <<>> =>
        ((activeWatches # {} \/ orientationListeners # {}) => route # 0)

\* C3: at most one position watch and at most one orientation listener made
\* by the controller are active.
C3_SingleSubscriptionPair ==
    Cardinality(activeWatches) <= 1 /\ Cardinality(orientationListeners) <= 1

\* C4: after stopNavigation() returns with no startNavigation in flight, the
\* position watch is cleared and the orientation listener that startNavigation
\* registered is no longer registered; route is null, the cursor is 0,
\* isNavigating is false and navigationStopped has been emitted.
C4_StopCancelsSubscriptions ==
    (lastCall = "stopNavigation" /\ pendingStarts = <<>>) =>
        /\ activeWatches = {}
        /\ \A l \in orientationListeners : l.fn # BoundFn(bindCount)
        /\ route = 0 /\ currentWaypointIndex = 0 /\ ~isNavigating
        /\ \E i \in 1..Len(emitted) : emitted[i].ev = "navigationStopped"

\* Positions of the emit calls of the last operation.
IsDestinationAlert(e) ==
    e.ev = "alert" /\ e.type = "destination-reached" /\ e.severity = "success"

\* C5: while navigating with the cursor on the second-to-last waypoint, a fix
\* within the waypoint threshold (0.1 NM) of the last waypoint produces, in
\* this order, a destination-reached alert of severity success, a
\* destinationReached event and a navigationStopped event, and afterwards
\* isNavigating is false.
C5_DestinationReached ==
    [][(/\ lastCall' = "handlePositionUpdate" /\ fixes' = fixes + 1
        /\ isNavigating /\ route # 0
        /\ currentWaypointIndex = Len(NavRoutes[route]) - 2
        /\ Len(emitted') > 0
        /\ emitted'[1].ev = "navigationUpdate"
        /\ Abs(emitted'[1].state.lat - NavRoutes[route][Len(NavRoutes[route])]) <= 2)
       => /\ \E i, j, k \in 1..Len(emitted') :
                /\ i < j /\ j < k
                /\ IsDestinationAlert(emitted'[i])
                /\ emitted'[j].ev = "destinationReached"
                /\ emitted'[k].ev = "navigationStopped"
          /\ ~isNavigating']_vars

C5_Witness ==
    /\ lastCall = "handlePositionUpdate"
    /\ ~isNavigating /\ route = 0
    /\ \E i \in 1..Len(emitted) : emitted[i].ev = "destinationReached"

\* C6: once a session has ended (stopNavigation, or the destination reached),
\* no pauseNavigation, resumeNavigation, skipToNextWaypoint, position fix,
\* position error or orientation event makes isNavigating true or route
\* non-null again.
C6_EndedIsTerminal ==
    [][(route = 0 /\ ~isNavigating /\ starts' = starts)
       => (route' = 0 /\ ~isNavigating')]_vars

C6_Witness ==
    /\ watchCount > 0 /\ route = 0 /\ ~isNavigating
    /\ lastCall = "resumeNavigation"

\* C7: while a session is paused the subscriptions stay active: pausing
\* cancels none, a position fix still reaches the controller but emits
\* nothing and leaves the cursor, and resumeNavigation() restores
\* isNavigating = true with the same route and the same cursor.
C7_PausedSession ==
    [][/\ (lastCall' = "pauseNavigation" /\ lastCall # lastCall')
          => /\ activeWatches' = activeWatches
             /\ orientationListeners' = orientationListeners
             /\ route' = route /\ currentWaypointIndex' = currentWaypointIndex
             /\ ~isNavigating'
       /\ (route # 0 /\ ~isNavigating /\ fixes' = fixes + 1)
          => /\ emitted' = <<>>
             /\ currentWaypointIndex' = currentWaypointIndex
             /\ route' = route /\ ~isNavigating'
             /\ navigationHistory' = navigationHistory
             /\ activeWatches' = activeWatches
             /\ orientationListeners' = orientationListeners
       /\ (route # 0 /\ ~isNavigating /\ lastCall' = "resumeNavigation")
          => /\ isNavigating'
             /\ route' = route /\ currentWaypointIndex' = currentWaypointIndex
             /\ activeWatches' = activeWatches
             /\ orientationListeners' = orientationListeners]_vars

C7_Witness ==
    /\ lastCall = "handlePositionUpdate"
    /\ route # 0 /\ ~isNavigating
    /\ activeWatches # {} /\ orientationListeners # {}
    /\ currentWaypointIndex > 0

\* The entries of the analysis for fetched hazard j on leg i.
EntriesFor(j, i) ==
    {m \in 1..Len(analysis.result.hazards) :
        /\ analysis.result.hazards[m].hazard = analysis.fetched[j]
        /\ analysis.result.hazards[m].waypointSegment = i}

\* The clamped distance of fetched hazard j from leg i, squared, in 50 m units.
LegDistance(j, i) ==
    DistanceFromLineSegment([lat |-> analysis.fetched[j].lat, lon |-> analysis.fetched[j].lon],
                            analysis.waypoints[i + 1], analysis.waypoints[i + 2])

\* safetyMargin + radius in 50 m units, 100 m standing in for a missing radius.
BufferUnits(j) ==
    (analysis.safetyMargin
        + (IF analysis.fetched[j].radius.k = "num" THEN analysis.fetched[j].radius.v ELSE 100))
    \div 50

\* C12: a fetched hazard is attached to leg i, by exactly one entry carrying
\* the clamped segment distance, iff that distance is strictly less than
\* safetyMargin + radius (100 m without a radius); the entries are ordered by
\* leg index.
C12_AttachBoundary ==
    analysis.valid =>
        /\ \A j \in 1..Len(analysis.fetched) : \A i \in Legs(analysis.waypoints) :
              LET d == LegDistance(j, i)
              IN  IF d.num < BufferUnits(j) * BufferUnits(j) * d.den
                  THEN /\ Cardinality(EntriesFor(j, i)) = 1
                       /\ \A m \in EntriesFor(j, i) :
                             analysis.result.hazards[m].distanceFromRoute = d
                  ELSE EntriesFor(j, i) = {}
        /\ \A m, n \in 1..Len(analysis.result.hazards) :
              m < n => analysis.result.hazards[m].waypointSegment
                          <= analysis.result.hazards[n].waypointSegment
        /\ \A m \in 1..Len(analysis.result.hazards) :
              \E j \in 1..Len(analysis.fetched) :
                  m \in EntriesFor(j, analysis.result.hazards[m].waypointSegment)

\* A hazard attached to two legs, and one at exactly the buffer distance.
C12_Witness ==
    /\ analysis.valid
    /\ \E j \in 1..Len(analysis.fetched) : EntriesFor(j, 0) # {} /\ EntriesFor(j, 1) # {}
    /\ \E j \in 1..Len(analysis.fetched) : \E i \in Legs(analysis.waypoints) :
          LegDistance(j, i).num = BufferUnits(j) * BufferUnits(j) * LegDistance(j, i).den

\* A step in which a fix is processed while navigating with a next waypoint.
FixProcessed ==
    /\ fixes' = fixes + 1
    /\ isNavigating /\ route # 0
    /\ currentWaypointIndex + 2 <= Len(NavRoutes[route])
    /\ Len(emitted') > 0 /\ emitted'[1].ev = "navigationUpdate"

\* In such a step: the distance from the fix to the next waypoint (0.05 NM).
FixDistance == Abs(emitted'[1].state.lat - NavRoutes[route][currentWaypointIndex + 2])

HasAlert(log, type) == \E n \in 1..Len(log) : log[n].ev = "alert" /\ log[n].type = type

\* C13: on a fix processed while navigating, the next waypoint is reached iff
\* its distance from the fix is at most the threshold (0.1 NM); when it is
\* not the last waypoint, the cursor grows by one, a waypoint-reached alert of
\* severity success and then a waypointReached event with the new cursor are
\* emitted, and the session stays navigating on the same route.
C13_WaypointReached ==
    [][FixProcessed =>
        /\ (FixDistance <= 2) <=>
              (HasAlert(emitted', "waypoint-reached") \/ HasAlert(emitted', "destination-reached"))
        /\ (FixDistance <= 2 /\ currentWaypointIndex + 2 < Len(NavRoutes[route]))
           => /\ currentWaypointIndex' = currentWaypointIndex + 1
              /\ isNavigating' /\ route' = route
              /\ \E i, j \in 1..Len(emitted') :
                    /\ i < j
                    /\ emitted'[i].ev = "alert" /\ emitted'[i].type = "waypoint-reached"
                    /\ emitted'[i].severity = "success"
                    /\ emitted'[j].ev = "waypointReached"
                    /\ emitted'[j].index = currentWaypointIndex + 1
              /\ ~HasAlert(emitted', "destination-reached")]_vars

C13_Witness ==
    /\ lastCall = "handlePositionUpdate"
    /\ isNavigating /\ route = 2 /\ currentWaypointIndex = 1
    /\ \E n \in 1..Len(emitted) : emitted[n].ev = "waypointReached"
    /\ emitted[1].state.distanceToNext = 2

\* C14: skipToNextWaypoint() adds one to the cursor and emits waypointSkipped
\* when a route is set and the cursor is below length - 2, and otherwise
\* changes and emits nothing; so the cursor never passes length - 2 by a skip,
\* the next target is a waypoint of the route, and the session does not end.
C14_SkipBounded ==
    [][lastCall' = "skipToNextWaypoint" =>
        /\ IF route # 0 /\ currentWaypointIndex < Len(NavRoutes[route]) - 2
           THEN /\ currentWaypointIndex' = currentWaypointIndex + 1
                /\ Len(emitted') = 1 /\ emitted'[1].ev = "waypointSkipped"
                /\ currentWaypointIndex' <= Len(NavRoutes[route]) - 2
                /\ currentWaypointIndex' + 2 \in DOMAIN NavRoutes[route]
           ELSE /\ currentWaypointIndex' = currentWaypointIndex
                /\ emitted' = <<>>
        /\ route' = route /\ isNavigating' = isNavigating
        /\ activeWatches' = activeWatches
        /\ orientationListeners' = orientationListeners]_vars

C14_Witness ==
    /\ lastCall = "skipToNextWaypoint"
    /\ route = 2 /\ currentWaypointIndex = 1 /\ isNavigating
    /\ Len(emitted) = 1 /\ emitted[1].ev = "waypointSkipped"

\* C15: from every reachable state, a second stopNavigation() right after a
\* first leaves getStatus() (isNavigating, route, currentWaypointIndex,
\* historyLength) as it was after the first.
C15_StopIdempotent ==
    /\ GetStatus(StopNavigation(StopNavigation(Nav))) = GetStatus(StopNavigation(Nav))
    /\ lastCall = "stopNavigation" => GetStatus(StopNavigation(Nav)) = GetStatus(Nav)

\* A stop that ended a session with a recorded history.
C15_Witness ==
    /\ lastCall = "stopNavigation"
    /\ navigationHistory # <<>> /\ watchCount > 0
    /\ GetStatus(Nav) = [isNavigating |-> FALSE, route |-> 0, currentWaypointIndex |-> 0,
                          historyLength |-> Len(navigationHistory)]

\* C16: a startNavigation(route) that runs to completion without interleaved
\* calls, in a browser with both sensors, leaves getStatus() = {isNavigating:
\* true, route, cursor 0, historyLength 0} with one position watch and one
\* orientation listener active and emits navigationStarted; a session that was
\* navigating when it was called is stopped first: its subscriptions are
\* cancelled and navigationStopped is emitted.
C16_StartCompletes ==
    [][/\ (/\ lastCall' = "startNavigation" /\ starts' = starts + 1
            /\ isNavigating /\ pendingStarts = <<>>)
          => /\ \E n \in 1..Len(emitted') : emitted'[n].ev = "navigationStopped"
             /\ activeWatches' = {}
             /\ orientationListeners' = {}
       /\ (/\ lastCall = "startNavigation" /\ lastCall' = "startNavigation resumed"
            /\ Len(pendingStarts) = 1
            /\ env.geolocation /\ env.orientation)
          => /\ isNavigating' /\ route' = pendingStarts[1]
             /\ currentWaypointIndex' = 0 /\ navigationHistory' = <<>>
             /\ Cardinality(activeWatches') = 1
             /\ Cardinality(orientationListeners') = 1
             /\ \E n \in 1..Len(emitted') : emitted'[n].ev = "navigationStarted"]_vars

\* C17: a geolocation error of any class emits exactly one gps-error alert of
\* severity warning whose message is the one of that class, and leaves
\* isNavigating, route, cursor, history and the position subscription as they
\* were, whatever the length of the history.
C17_PositionError ==
    [][lastCall' = "handlePositionError" =>
        /\ Len(emitted') = 1
        /\ emitted'[1].ev = "alert" /\ emitted'[1].type = "gps-error"
        /\ emitted'[1].severity = "warning"
        /\ emitted'[1].message \in {ErrorMessage(c) : c \in ErrorCodes}
        /\ emitted'[1].message # "GPS error occurred"
        /\ \A c, d \in ErrorCodes : c # d => ErrorMessage(c) # ErrorMessage(d)
        /\ isNavigating' = isNavigating /\ route' = route
        /\ currentWaypointIndex' = currentWaypointIndex
        /\ navigationHistory' = navigationHistory
        /\ activeWatches' = activeWatches /\ watchId' = watchId]_vars

C17_Witness ==
    /\ lastCall = "handlePositionError"
    /\ isNavigating /\ route # 0 /\ Len(navigationHistory) = 2
    /\ activeWatches # {}
    /\ emitted[1].message = ErrorMessage(1)

\* C20: on a fix processed while navigating, a waypoint-approaching alert
\* (severity info, auto-closing) is emitted iff 0.1 NM < distanceToNext <
\* 0.5 NM, on every such fix, and never together with a waypoint-reached or
\* destination-reached alert.
C20_ApproachingAlert ==
    [][FixProcessed =>
        /\ HasAlert(emitted', "waypoint-approaching") <=> (2 < FixDistance /\ FixDistance < 10)
        /\ \A n \in 1..Len(emitted') :
              emitted'[n].type = "waypoint-approaching"
              => /\ emitted'[n].ev = "alert" /\ emitted'[n].severity = "info"
                 /\ emitted'[n].autoClose
                 /\ \A m \in 1..Len(emitted') :
                       emitted'[m].type = "waypoint-approaching" => m = n
        /\ HasAlert(emitted', "waypoint-approaching")
           => /\ ~HasAlert(emitted', "waypoint-reached")
              /\ ~HasAlert(emitted', "destination-reached")]_vars

\* The second of two fixes at the same approaching position.
C20_Witness ==
    /\ lastCall = "handlePositionUpdate" /\ isNavigating
    /\ Len(navigationHistory) = 2
    /\ navigationHistory[1].lat = 12 /\ navigationHistory[2].lat = 12
    /\ HasAlert(emitted, "waypoint-approaching")

\* ------------------------------------------ claims: functions called directly
\* C11: requiresRerouting(analysis) is true iff analysis.isSafe is false, or
\* some attached hazard has severity critical, or minDepth is a number below
\* 1.0 m, for every RouteAnalysis value, also an inconsistent one.
C11_RequiresRerouting ==
    pureCall.fn = "requiresRerouting" =>
        (pureCall.output <=>
            \/ pureCall.input.isSafe = FALSE
            \/ HasCritical(pureCall.input.hazards)
            \/ (pureCall.input.minDepth.k = "num" /\ pureCall.input.minDepth.v < 10))

C11_Witness ==
    /\ pureCall.fn = "requiresRerouting"
    /\ pureCall.input.isSafe /\ ~HasCritical(pureCall.input.hazards)
    /\ pureCall.input.minDepth = Num(9)
    /\ pureCall.output

\* In a checkCourseDeviation call: |bearingToNext - heading|.
RawDifference == Abs(pureCall.input.bearingToNext - pureCall.input.heading)

Minimum(a, b) == IF a <= b THEN a ELSE b

CourseAlerts ==
    {n \in 1..Len(pureCall.output) : pureCall.output[n].type = "course-correction"}

\* C18: with a next waypoint, a course-correction alert (severity warning,
\* auto-closing) is emitted iff min(|bearingToNext - heading|,
\* 360 - |bearingToNext - heading|) > 45; at exactly 45 none is.
C18_CourseDeviationThreshold ==
    pureCall.fn = "checkCourseDeviation" =>
        /\ (CourseAlerts # {}) <=> (Minimum(RawDifference, 360 - RawDifference) > 45)
        /\ Cardinality(CourseAlerts) <= 1
        /\ \A n \in CourseAlerts :
              /\ pureCall.output[n].ev = "alert"
              /\ pureCall.output[n].severity = "warning"
              /\ pureCall.output[n].autoClose

\* A normalized difference of exactly 45 through the wrap at 360.
C18_Witness ==
    /\ pureCall.fn = "checkCourseDeviation"
    /\ RawDifference = 315
    /\ CourseAlerts = {}

\* C19: the course-correction alert says left when the raw difference
\* between bearing-to-next and heading exceeds 180 degrees, and right
\* otherwise.
C19_TurnDirection ==
    pureCall.fn = "checkCourseDeviation" =>
        \A n \in CourseAlerts : (pureCall.output[n].index = 1) <=> (RawDifference > 180)

\* ------------------------------------------------------ listener registry
\* The callback the calls of on and off made so far leave for an event:
\* that of the last on(event, _) with no later off(event), "" for none.
RECURSIVE LastRegistered(_, _)
LastRegistered(log, event) ==
    IF log = <<>> THEN ""
    ELSE LET last == log[Len(log)]
         IN  IF last.event = event
             THEN (IF last.op = "on" THEN last.callback ELSE "")
             ELSE LastRegistered(SubSeq(log, 1, Len(log) - 1), event)

EmitsOf(event) == {n \in 1..Len(emitted) : emitted[n].ev = event}

CallsFor(event) ==
    LET called == CallbacksCalled(listeners, emitted)
    IN  {n \in 1..Len(called) : called[n].event.ev = event}

\* C21: the registry holds at most one callback per event name: every emit
\* of an event calls exactly once the callback of the last on() for that
\* event that no off() followed, and never an earlier one; with none
\* registered or after off() the emit calls nothing; registrations for
\* other event names do not matter.
C21_SingleCallback ==
    LET called == CallbacksCalled(listeners, emitted)
    IN  \A e \in EventNames :
           /\ LastRegistered(regLog, e) = "" => CallsFor(e) = {}
           /\ LastRegistered(regLog, e) # "" =>
                 /\ Cardinality(CallsFor(e)) = Cardinality(EmitsOf(e))
                 /\ \A n \in CallsFor(e) : called[n].callback = LastRegistered(regLog, e)

\* on("alert", f) then on("alert", g), and an alert is emitted: g is called.
C21_Witness ==
    /\ \E i, j \in 1..Len(regLog) :
          /\ i < j
          /\ regLog[i] = [op |-> "on", event |-> "alert", callback |-> "f"]
          /\ regLog[j] = [op |-> "on", event |-> "alert", callback |-> "g"]
    /\ LastRegistered(regLog, "alert") = "g"
    /\ EmitsOf("alert") # {}
    /\ \A n \in CallsFor("alert") : CallbacksCalled(listeners, emitted)[n].callback = "g"
    /\ CallsFor("alert") # {}

\* ------------------------------------------------------- planned routes
Planned == pureCall.fn \in {"generateRoute", "addWaypoint"}

\* The distances of the consecutive waypoint pairs of a route, added up.
PairSum(waypoints) ==
    LET RECURSIVE From(_)
        From(i) == IF i >= Len(waypoints) THEN 0
                   ELSE Abs(waypoints[i + 1].lat - waypoints[i].lat) + From(i + 1)
    IN  From(1)

\* C22: after generateRoute and any sequence of addWaypoint calls the route's
\* totalDistance is the sum of the distances of its consecutive waypoint
\* pairs and its estimatedTime is totalDistance / averageSpeed (a finite
\* number exactly when averageSpeed is not 0).
C22_DistanceAndTimeRecomputed ==
    Planned =>
        LET r == pureCall.output
        IN  /\ r.totalDistance = PairSum(r.waypoints)
            /\ r.averageSpeed # 0 =>
                  /\ r.estimatedTime.k = "num"
                  /\ r.estimatedTime.v.num * r.averageSpeed
                        = r.totalDistance * r.estimatedTime.v.den
            /\ r.averageSpeed = 0 =>
                  r.estimatedTime = (IF r.totalDistance = 0 THEN NaN ELSE Infinity)

\* A waypoint inserted between start and destination changed the distance.
C22_Witness ==
    /\ pureCall.fn = "addWaypoint"
    /\ Len(pureCall.output.waypoints) = 4
    /\ pureCall.output.totalDistance > pureCall.input.route.totalDistance
    /\ pureCall.output.averageSpeed = 5
    /\ pureCall.output.totalDistance = 44

\* C23: after generateRoute and any sequence of addWaypoint calls, with any
\* insertIndex or none, the route has at least 2 waypoints, its first
\* waypoint is the start-typed one, its last the destination-typed one,
\* every waypoint between them is waypoint-typed, and the route given to
\* addWaypoint is left as it was.
C23_RouteShape ==
    Planned =>
        LET waypoints == pureCall.output.waypoints
        IN  /\ Len(waypoints) >= 2
            /\ waypoints[1].type = "start"
            /\ waypoints[Len(waypoints)].type = "destination"
            /\ \A i \in 2..(Len(waypoints) - 1) : waypoints[i].type = "waypoint"
            /\ pureCall.fn = "addWaypoint" => pureCall.inputAfter = pureCall.input.route

\* --------------------------------------------------- navigation snapshots
\* C24: for a route with at least 2 waypoints and a cursor k with
\* 0 <= k <= length - 2, progress is 100 x (distance of the first k legs) /
\* (total distance): a number in [0, 100], 0 at k = 0, non-decreasing in k
\* and the same at every position.
C24_Progress ==
    (/\ pureCall.fn = "calculateNavigationState"
     /\ Len(pureCall.input.waypoints) >= 2
     /\ pureCall.input.index <= Len(pureCall.input.waypoints) - 2) =>
        LET waypoints == pureCall.input.waypoints
            k == pureCall.input.index
            progress == pureCall.output.progress
            At(p, j) == CalculateNavigationState(p, waypoints, j).progress
        IN  /\ progress.den > 0
            /\ progress.num * CalculateRouteDistance(waypoints)
                  = 100 * LegsDistance(waypoints, k) * progress.den
            /\ 0 <= progress.num /\ progress.num <= 100 * progress.den
            /\ k = 0 => progress.num = 0
            /\ \A j \in 0..k :
                  At(pureCall.input.position, j).num * progress.den
                      <= progress.num * At(pureCall.input.position, j).den
            /\ \A p \in PurePositions : At(p, k) = progress

\* C25: calculateNavigationState returns the terminal snapshot (no next
\* waypoint, distance, bearing and ETA 0, progress 100) iff the cursor is at
\* least length - 1, at every position; for a smaller cursor the next
\* waypoint is waypoints[cursor + 1].
C25_TerminalSnapshot ==
    pureCall.fn = "calculateNavigationState" =>
        LET waypoints == pureCall.input.waypoints
            k == pureCall.input.index
            out == pureCall.output
            terminal == /\ out.nextWaypoint = 0
                        /\ out.distanceToNext = 0
                        /\ out.bearingToNext = 0
                        /\ out.etaToNext = [num |-> 0, den |-> 1]
                        /\ out.progress = [num |-> 100, den |-> 1]
        IN  /\ terminal <=> k >= Len(waypoints) - 1
            /\ k < Len(waypoints) - 1 =>
                  /\ out.nextWaypoint = k + 2
                  /\ out.nextWaypointLat = waypoints[k + 2]

\* The cursor on the last waypoint of a 3-waypoint route, away from it.
C25_Witness ==
    /\ pureCall.fn = "calculateNavigationState"
    /\ pureCall.input.waypoints = <<0, 20, 17>>
    /\ pureCall.input.index = 2
    /\ pureCall.input.position.lat = 12
    /\ pureCall.output.nextWaypoint = 0
    /\ pureCall.output.progress = [num |-> 100, den |-> 1]

\* ------------------------------------------------------------- history
\* A position callback that passes the guard of handlePositionUpdate.
FixHandled == fixes' = fixes + 1 /\ isNavigating /\ route # 0

\* The last n elements of a sequence.
LastN(seq, n) == IF Len(seq) <= n THEN seq ELSE SubSeq(seq, Len(seq) - n + 1, Len(seq))

\* C26: the history never holds more than 100 entries; every fix processed
\* while navigating appends exactly one entry (its position and the smoothed
\* speed) and, when 100 are already held, the oldest is dropped; nothing
\* else adds or reorders entries, and startNavigation empties the history:
\* the history is the most recent (at most 100) processed fixes, in order.
C26_HistoryRing ==
    [][ /\ Len(navigationHistory') <= 100
        /\ FixHandled =>
              navigationHistory' =
                  LastN(navigationHistory \o <<[lat |-> emitted'[1].state.lat,
                                                speed |-> currentSpeed']>>, 100)
        /\ lastCall' = "startNavigation" => navigationHistory' = <<>>
        /\ (~FixHandled /\ lastCall' # "startNavigation") =>
              navigationHistory' = navigationHistory ]_vars

\* A fix arrived when 100 entries were held: the oldest one (latitude 12)
\* is gone and the new one is last.
C26_Witness ==
    /\ Len(navigationHistory) = 100
    /\ fixes >= 1
    /\ navigationHistory[1].lat = 30
    /\ navigationHistory[99].lat = 30
    /\ navigationHistory[100].lat = 18

\* ------------------------------------------------------- invalid routes
\* C27: an invalid route is rejected: analyzeRouteHazards returns no
\* analysis for an empty waypoint list, and startNavigation enters no
\* session (no route held, no navigating flag, no position watch) for a
\* route with fewer than 2 waypoints.
C27_InvalidRoutesRejected ==
    /\ analysis.valid => analysis.waypoints # <<>>
    /\ route # 0 => Len(NavRoutes[route]) >= 2
    /\ (isNavigating \/ activeWatches # {}) => route \notin ShortRoutes

\* ---------------------------------------------------- hazard avoidance
\* C28: suggestHazardAvoidance returns null iff the start and the end of the
\* leg are the same point; for any other leg it returns a waypoint, whatever
\* the hazard and the safety margin.
C28_AvoidanceNullIffZeroLeg ==
    pureCall.fn = "suggestHazardAvoidance" =>
        /\ (pureCall.output = Null) <=> (pureCall.input.start = pureCall.input.end)
        /\ pureCall.input.start # pureCall.input.end => pureCall.output.k = "waypoint"

\* A leg along a meridian, a hazard without radius and no margin: a
\* waypoint is returned.
C28_Witness ==
    /\ pureCall.fn = "suggestHazardAvoidance"
    /\ pureCall.input.start = WP(0, 3)
    /\ pureCall.input.end = WP(4, 3)
    /\ pureCall.input.hazard.radius = 0
    /\ pureCall.input.safetyMargin = 0
    /\ pureCall.output.k = "waypoint"
    /\ pureCall.output.hazardBuffer = 100

\* ------------------------------------------------------ recommendations
VerifyCharts == "Always verify route with official nautical charts before navigation"

HasVerifyCharts ==
    \E n \in 1..Len(analysis.result.recommendations) :
        analysis.result.recommendations[n].text = VerifyCharts

\* C29: every RouteAnalysis that analyzeRouteHazards returns, whether the
\* fetch succeeded with or without hazards or failed with or without a cached
\* copy, contains the recommendation to verify the route with official
\* nautical charts.
C29_VerifyChartsAlways ==
    analysis.valid => HasVerifyCharts

\* A failed fetch answered from the cache, with hazards on the route.
C29_Witness ==
    /\ analysis.valid
    /\ analysis.response.outcome # "ok"
    /\ analysis.fetched # <<>>
    /\ analysis.result.hazards # <<>>
    /\ HasVerifyCharts

\* ------------------------------------------------------- after the stop
\* The emit calls of the last operation that follow its navigationStopped.
AfterStopped ==
    {j \in 1..Len(emitted) :
        \E i \in 1..(j - 1) : emitted[i].ev = "navigationStopped"}

\* C30: once navigationStopped has been emitted, the operation that emitted
\* it emits no alert, waypoint or destination event and no navigation
\* update any more, whether the stop came from reaching the destination or
\* from a callback calling stopNavigation() during a position update; and
\* the cleared state stays cleared: with no route the cursor is 0.
C30_QuietAfterStop ==
    /\ \A j \in AfterStopped :
          emitted[j].ev \notin {"alert", "waypointReached", "destinationReached",
                                "navigationUpdate"}
    /\ route = 0 => currentWaypointIndex = 0 /\ ~isNavigating

\* ------------------------------------------------------ controller state
\* C31: between operations, isNavigating implies a route is held; with no
\* route the cursor is 0; and with a route of n >= 2 waypoints the cursor is
\* between 0 and n - 2, never on or past the destination.
C31_ControllerState ==
    /\ isNavigating => route # 0
    /\ route = 0 => currentWaypointIndex = 0
    /\ (route # 0 /\ Len(NavRoutes[route]) >= 2) =>
          /\ 0 <= currentWaypointIndex
          /\ currentWaypointIndex <= Len(NavRoutes[route]) - 2

\* --------------------------------------------------------------- cursor
\* The progress calculateNavigationState reports for a cursor of a route.
ProgressAt(r, k) ==
    [num |-> LegsDistance(NavRoutes[r], k) * 100, den |-> CalculateRouteDistance(NavRoutes[r])]

\* C32: within a session the cursor never decreases (it returns to 0 only
\* when a session starts or ends), a processed fix advances it by at most
\* one, also when two consecutive waypoints are within the threshold of the
\* fix, so the destination is announced only from the last leg; and the
\* progress of a navigationUpdate is that of the cursor before the fix, not
\* below the progress of any smaller cursor.
C32_CursorMonotone ==
    [][ /\ (route # 0 /\ route' = route /\ lastCall' # "startNavigation") =>
              /\ currentWaypointIndex' >= currentWaypointIndex
              /\ currentWaypointIndex' <= currentWaypointIndex + 1
        /\ FixProcessed =>
              /\ HasAlert(emitted', "destination-reached") =>
                    currentWaypointIndex + 1 >= Len(NavRoutes[route]) - 1
              /\ emitted'[1].state.progress = ProgressAt(route, currentWaypointIndex)
              /\ \A k \in 0..currentWaypointIndex :
                    ProgressAt(route, k).num * emitted'[1].state.progress.den
                        <= emitted'[1].state.progress.num * ProgressAt(route, k).den ]_vars

\* A fix within the threshold of the next two waypoints (20 and 17) moved
\* the cursor from 0 to 1 only.
C32_Witness ==
    /\ lastCall = "handlePositionUpdate"
    /\ route = 2 /\ currentWaypointIndex = 1 /\ isNavigating
    /\ Len(emitted) > 0 /\ emitted[1].ev = "navigationUpdate"
    /\ emitted[1].state.lat = 18
    /\ emitted[1].state.progress.num = 0
    /\ HasAlert(emitted, "waypoint-reached")

\* ------------------------------------------------------------- verdicts
\* C33: for every analysis analyzeRouteHazards returns (vesselDraft >= 0),
\* requiresRerouting(analysis) is the negation of analysis.isSafe: no
\* analysis is safe while it attaches a critical hazard or has a minimum
\* depth below 1.0 m.
C33_VerdictsAgree ==
    (analysis.valid /\ analysis.vesselDraft >= 0) =>
        /\ RequiresRerouting(analysis.result) <=> ~analysis.result.isSafe
        /\ analysis.result.isSafe =>
              /\ \A n \in 1..Len(analysis.result.hazards) :
                    analysis.result.hazards[n].hazard.severity # "critical"
              /\ ~(analysis.result.minDepth.k = "num" /\ analysis.result.minDepth.v < 10)

\* A minimum depth below 1.0 m with no critical hazard attached: unsafe,
\* and rerouting is required.
C33_Witness ==
    /\ analysis.valid
    /\ analysis.result.minDepth.k = "num" /\ analysis.result.minDepth.v < 10
    /\ \A n \in 1..Len(analysis.result.hazards) :
          analysis.result.hazards[n].hazard.severity # "critical"
    /\ ~analysis.result.isSafe
    /\ RequiresRerouting(analysis.result)

\* -------------------------------------------------------- minimum depth
\* The depths (dm) of the fetched hazards that carry a numeric depth.
FetchedDepths ==
    {analysis.fetched[n].depth.v :
        n \in {m \in 1..Len(analysis.fetched) : analysis.fetched[m].depth.k = "num"}}

\* C34: for a route with at least one leg, minDepth is the minimum depth
\* over all fetched hazards that carry a depth, attached to a leg or not,
\* and null iff none carries one; a depth below vesselDraft + 1.0 makes the
\* route unsafe even when no hazard is attached.
C34_MinDepthOverAll ==
    (analysis.valid /\ Len(analysis.waypoints) >= 2) =>
        /\ (analysis.result.minDepth.k = "null") <=>
              (\A n \in 1..Len(analysis.fetched) :
                  analysis.fetched[n].depth.k \in {"undef", "null"})
        /\ FetchedDepths # {} => analysis.result.minDepth = Num(Min(FetchedDepths))
        /\ (FetchedDepths # {} /\ Min(FetchedDepths) < analysis.vesselDraft + 10) =>
              ~analysis.result.isSafe

\* ------------------------------------------------------- cache coverage
\* The last call failed to fetch and was answered from the cache.
ServedFromCache ==
    /\ analysis.valid
    /\ analysis.response.outcome # "ok"
    /\ ~GetCachedNauticalData(storage, analysis.bbox, analysis.at).isNull

\* C35: a cached snapshot returned after a fetch failure was stored for a
\* bounding box that covers the requested one; a snapshot of a smaller box
\* with the same south-west corner is not returned for a larger request.
C35_CacheCoversRequest ==
    ServedFromCache =>
        LET stored == storage[CacheKey(analysis.bbox)].bbox
        IN  /\ stored.south <= analysis.bbox.south
            /\ stored.west <= analysis.bbox.west
            /\ stored.north >= analysis.bbox.north
            /\ stored.east >= analysis.bbox.east

\* ------------------------------------------------------- emission order
\* The place of an emit call in the order of one position update.
Rank(e) ==
    IF e.ev = "navigationUpdate" THEN 1
    ELSE IF e.ev = "alert" /\ e.type = "waypoint-approaching" THEN 2
    ELSE IF e.ev = "alert" /\ e.type \in {"waypoint-reached", "destination-reached"} THEN 3
    ELSE IF e.ev \in {"waypointReached", "destinationReached"} THEN 4
    ELSE IF e.ev = "navigationStopped" THEN 5
    ELSE IF e.ev = "alert" /\ e.type = "course-correction" THEN 6
    ELSE IF e.ev = "alert" /\ e.type = "low-speed" THEN 7
    ELSE 0

\* C36: a fix processed while navigating emits, in this order: the
\* navigationUpdate with the state computed for the cursor before the fix,
\* any waypoint-approaching alert, any waypoint-reached or
\* destination-reached alert directly followed by its event, any
\* course-correction alert, any low-speed alert; the course and speed
\* checks read the state of the navigationUpdate, also when the cursor
\* advanced or the destination was reached.
C36_EmissionOrder ==
    [][FixProcessed =>
        LET log == emitted'
            state == log[1].state
            diff == Abs(state.bearingToNext - state.heading)
        IN  /\ state.nextWaypoint = currentWaypointIndex + 2
            /\ \A n \in 1..Len(log) : Rank(log[n]) > 0
            /\ \A n \in 1..(Len(log) - 1) : Rank(log[n]) < Rank(log[n + 1])
            /\ \A n \in 1..Len(log) :
                  Rank(log[n]) = 3 =>
                      /\ n < Len(log)
                      /\ log[n + 1].ev = (IF log[n].type = "waypoint-reached"
                                           THEN "waypointReached" ELSE "destinationReached")
            /\ HasAlert(log, "course-correction") <=>
                  (IF diff <= 360 - diff THEN diff ELSE 360 - diff) > 45
            /\ HasAlert(log, "low-speed") <=> 2 * state.speed.num < state.speed.den * 10000000 ]_vars

\* One fix reached a waypoint off course and slowly: the update, the
\* waypoint-reached alert and its event, then both course alerts.
C36_Witness ==
    /\ lastCall = "handlePositionUpdate"
    /\ Len(emitted) = 5
    /\ emitted[1].ev = "navigationUpdate"
    /\ emitted[2].ev = "alert" /\ emitted[2].type = "waypoint-reached"
    /\ emitted[3].ev = "waypointReached"
    /\ emitted[4].ev = "alert" /\ emitted[4].type = "course-correction"
    /\ emitted[5].ev = "alert" /\ emitted[5].type = "low-speed"

\* ------------------------------------------------------ rejected start
\* C37: after a startNavigation that rejects because the browser has no
\* geolocation, the controller is not navigating: isNavigating is false,
\* no route is held and no subscription is active.
C37_RejectedStartLeavesIdle ==
    (lastCall = "startNavigation" /\ ~env.geolocation) =>
        /\ ~GetStatus(Nav).isNavigating
        /\ route = 0
        /\ activeWatches = {}
        /\ orientationListeners = {}

\* ------------------------------------------------------- smoothed speed
\* The raw readings of the fixes delivered, in 1e-7 knots; a missing speed
\* counts as 0.
RawKnots ==
    {IF f.speed.k = "num" THEN f.speed.v * 194384 ELSE 0 : f \in Fixes}

\* C38: the smoothing buffer never holds more than 5 readings; a handled
\* fix appends its raw speed in knots and keeps the 5 most recent, and the
\* speed of the emitted NavigationState and of the new history entry is the
\* arithmetic mean of the readings then held.
C38_SmoothedSpeed ==
    [][ /\ Len(smoothedSpeeds') <= 5
        /\ FixHandled =>
              /\ \E raw \in RawKnots :
                    smoothedSpeeds' = LastN(smoothedSpeeds \o <<raw>>, 5)
              /\ currentSpeed'.den = Len(smoothedSpeeds')
              /\ currentSpeed'.num = Sum(smoothedSpeeds')
              /\ emitted'[1].ev = "navigationUpdate"
              /\ emitted'[1].state.speed = currentSpeed'
              /\ navigationHistory'[Len(navigationHistory')].speed = currentSpeed'
        /\ ~FixHandled => smoothedSpeeds' = smoothedSpeeds ]_vars

\* After five readings of 0, a reading of 0.5 m/s: the buffer holds the last
\* five and the speed is their mean, 0.5 * 1.94384 / 5 knots.
C38_Witness ==
    /\ lastCall = "handlePositionUpdate"
    /\ fixes >= 1
    /\ Len(navigationHistory) >= 99
    /\ smoothedSpeeds = <<0, 0, 0, 0, 50 * 194384>>
    /\ currentSpeed = [num |-> 50 * 194384, den |-> 5]

\* C39: the smoothed speed of a session depends only on the fixes of that
\* session: startNavigation leaves no earlier reading in the smoothing
\* buffer, so the buffer never holds more readings than fixes were processed
\* since the latest startNavigation (the entries of the history, which it
\* empties), and the first fix of a session reports its own speed.
C39_SmoothingPerSession ==
    [][ /\ lastCall' = "startNavigation" => smoothedSpeeds' = <<>>
        /\ FixHandled =>
              /\ Len(smoothedSpeeds') <= Len(navigationHistory')
              /\ navigationHistory = <<>> =>
                    currentSpeed'.num = smoothedSpeeds'[Len(smoothedSpeeds')] * currentSpeed'.den
      ]_vars

\* ------------------------------------------------------------ fix route
\* The place of the waypoint with this latitude in a waypoint list.
PlaceOf(waypoints, lat) == CHOOSE p \in 1..Len(waypoints) : waypoints[p].lat = lat

\* C40: after the fix-route action, every avoidance waypoint is in the
\* route between the two waypoints of the leg it was computed for (for one
\* or several critical hazards, on one leg or on different legs), one per
\* critical hazard, and the route still begins with the start and ends with
\* the destination.
C40_AvoidanceInItsLeg ==
    pureCall.fn = "handleFixRoute" =>
        LET before == pureCall.input.route.waypoints
            after == pureCall.output.waypoints
            critical == {n \in 1..Len(pureCall.input.hazards) :
                            pureCall.input.hazards[n].hazard.severity = "critical"}
            Mid(i) == (before[i + 1].lat + before[i + 2].lat) \div 2
        IN  /\ after[1] = before[1]
            /\ after[Len(after)] = before[Len(before)]
            /\ Len(after) = Len(before) + Cardinality(critical)
            /\ \A p \in 1..Len(after) :
                  \A i \in 0..(Len(before) - 2) :
                      (after[p].type = "waypoint" /\ after[p].lat = Mid(i)) =>
                          /\ PlaceOf(after, before[i + 1].lat) < p
                          /\ p < PlaceOf(after, before[i + 2].lat)

====
